---- MODULE Spec2Model ----
(***************************************************************************)
(* Reference export of docx2LaTeX: MainWindow.export_all_references_to_bib *)
(* (src/ui/main_window.py).  Text is modelled character by character: a    *)
(* Python str is a sequence of one-character strings, and every regular    *)
(* expression of the method is an operator that computes what re.search /  *)
(* re.sub compute (leftmost match, greedy quantifiers, backtracking).      *)
(***************************************************************************)
EXTENDS Integers, Sequences, FiniteSets, TLC

(* ------------------------------------------------------------------ *)
(* Characters and character classes of the regular expressions         *)
(* ------------------------------------------------------------------ *)

UpperCase == <<"A", "B", "C", "D", "E", "F", "G", "H", "I", "J", "K", "L", "M",
               "N", "O", "P", "Q", "R", "S", "T", "U", "V", "W", "X", "Y", "Z">>

LowerCase == <<"a", "b", "c", "d", "e", "f", "g", "h", "i", "j", "k", "l", "m",
               "n", "o", "p", "q", "r", "s", "t", "u", "v", "w", "x", "y", "z">>

DigitChars == <<"0", "1", "2", "3", "4", "5", "6", "7", "8", "9">>

Range(s) == {s[i] : i \in DOMAIN s}

UpperSet == Range(UpperCase)

LetterSet == Range(UpperCase) \cup Range(LowerCase)

\* \d
DigitSet == Range(DigitChars)

\* \w
WordSet == LetterSet \cup DigitSet \cup {"_"}

\* \s
SpaceSet == {" ", "\n", "\t", "\r"}

\* [\w./-] of the DOI token
DoiTokenSet == WordSet \cup {".", "/", "-"}

\* [A-Za-z0-9 ,:;\-\(\)\&\'\*] of the title run
TitleRunSet == LetterSet \cup DigitSet \cup {" ", ",", ":", ";", "-", "(", ")", "&", "'", "*"}

\* [*\"] around the title
TitleQuoteSet == {"*", "\""}

\* str.lower() on one character; also the case folding of re.IGNORECASE
LowerOf == [c \in UpperSet |-> LowerCase[CHOOSE i \in 1..26 : UpperCase[i] = c]]

LowerChar(c) == IF c \in UpperSet THEN LowerOf[c] ELSE c

\* str.lower()
Lower(s) == [i \in 1..Len(s) |-> LowerChar(s[i])]

SetMin(S) == CHOOSE x \in S : \A y \in S : x <= y

SetMax(S) == CHOOSE x \in S : \A y \in S : x >= y

\* a regex literal at position p, case-sensitive
MatchAt(s, p, lit) ==
    /\ p >= 1
    /\ p + Len(lit) - 1 <= Len(s)
    /\ \A i \in 1..Len(lit) : s[p + i - 1] = lit[i]

\* a regex literal at position p under re.IGNORECASE
MatchAtCI(s, p, lit) ==
    /\ p >= 1
    /\ p + Len(lit) - 1 <= Len(s)
    /\ \A i \in 1..Len(lit) : LowerChar(s[p + i - 1]) = LowerChar(lit[i])

\* greedy [cls]* from p: the first position after the maximal run
RECURSIVE RunEnd(_, _, _)
RunEnd(s, p, cls) ==
    IF p <= Len(s) /\ s[p] \in cls THEN RunEnd(s, p + 1, cls) ELSE p

\* greedy [^excl]* from p: the first position after the maximal run
RECURSIVE RunEndNot(_, _, _)
RunEndNot(s, p, excl) ==
    IF p <= Len(s) /\ s[p] \notin excl THEN RunEndNot(s, p + 1, excl) ELSE p

\* str.strip()
Strip(s) ==
    LET a == RunEnd(s, 1, SpaceSet)
        keep == {i \in a..Len(s) : s[i] \notin SpaceSet}
    IN  IF keep = {} THEN <<>> ELSE SubSeq(s, a, SetMax(keep))

\* sep.join(items)
RECURSIVE Join(_, _)
Join(items, sep) ==
    IF Len(items) = 0 THEN <<>>
    ELSE IF Len(items) = 1 THEN items[1]
    ELSE items[1] \o sep \o Join(Tail(items), sep)

\* a match object (found, with the text of the group the code reads) or None
NoMatch == [found |-> FALSE, group |-> <<>>]

Match(g) == [found |-> TRUE, group |-> g]

(* ------------------------------------------------------------------ *)
(* The regular expressions of export_all_references_to_bib             *)
(* ------------------------------------------------------------------ *)

DoiMarker == <<"d", "o", "i", ":">>

\* re.search(r"doi:([\w./-]+)", ref_text, re.IGNORECASE); group(1)
DoiSearch(ref_text) ==
    LET starts == {p \in 1..Len(ref_text) :
                      /\ MatchAtCI(ref_text, p, DoiMarker)
                      /\ p + 4 <= Len(ref_text)
                      /\ ref_text[p + 4] \in DoiTokenSet}
    IN  IF starts = {} THEN NoMatch
        ELSE LET p == SetMin(starts)
             IN  Match(SubSeq(ref_text, p + 4, RunEnd(ref_text, p + 4, DoiTokenSet) - 1))

\* [*\"]?\. \d{4} at position q
TitleTailAt(text, q) ==
    LET tail(r) == /\ r + 5 <= Len(text)
                   /\ text[r] = "."
                   /\ text[r + 1] = " "
                   /\ \A k \in 2..5 : text[r + k] \in DigitSet
    IN  \/ (q <= Len(text) /\ text[q] \in TitleQuoteSet /\ tail(q + 1))
        \/ tail(q)

\* the lengths of group 2 with which the pattern matches when group 2 starts at b
TitleRunLengths(text, b) ==
    {n \in 1..(RunEnd(text, b, TitleRunSet) - b) : TitleTailAt(text, b + n)}

\* the pattern of the title at position p: group 2 as the backtracking engine finds
\* it (the optional opening mark taken first, then the longest run)
TitleMatchAt(text, p) ==
    IF ~MatchAt(text, p, <<".", " ">>) THEN NoMatch
    ELSE LET b1 == p + 3
             b0 == p + 2
             withMark == IF p + 2 <= Len(text) /\ text[p + 2] \in TitleQuoteSet
                         THEN TitleRunLengths(text, b1) ELSE {}
             without == TitleRunLengths(text, b0)
         IN  IF withMark # {}
             THEN Match(SubSeq(text, b1, b1 + SetMax(withMark) - 1))
             ELSE IF without # {}
                  THEN Match(SubSeq(text, b0, b0 + SetMax(without) - 1))
                  ELSE NoMatch

\* TitleSearch with group 2 running from the first ". " of the text to the last
\* ". " and four digits, periods allowed in between (marks around it dropped)
TitleSearchWholeRun(ref_text) ==
    LET starts == {p \in 1..Len(ref_text) : MatchAt(ref_text, p, <<".", " ">>)}
        p == SetMin(starts)
        ends == {r \in (p + 3)..Len(ref_text) : TitleTailAt(ref_text, r)}
        b == IF ref_text[p + 2] \in TitleQuoteSet THEN p + 3 ELSE p + 2
    IN  IF starts = {} \/ p + 2 > Len(ref_text) THEN NoMatch
        ELSE IF {r \in ends : r > b} = {} THEN NoMatch
        ELSE Match(SubSeq(ref_text, b, SetMax(ends) - 1))

\* re.search(r"\. ([*\"]?)([A-Za-z0-9 ,:;\-\(\)\&\'\*]+)[*\"]?\. \d{4}", ref_text); group(2)
TitleSearch(ref_text) ==
    LET starts == {p \in 1..Len(ref_text) : TitleMatchAt(ref_text, p).found}
    IN  IF starts = {} THEN NoMatch ELSE TitleMatchAt(ref_text, SetMin(starts))

\* @\w+\{ at position s: the position after the brace, 0 when there is no opener
OpenerEnd(bib, s) ==
    IF s <= Len(bib) /\ bib[s] = "@"
    THEN LET e == RunEnd(bib, s + 1, WordSet)
         IN  IF e > s + 1 /\ e <= Len(bib) /\ bib[e] = "{" THEN e + 1 ELSE 0
    ELSE 0

\* the last position [^@]* can reach from the opener at s
RegionEnd(bib, s) == RunEndNot(bib, s + 1, {"@"}) - 1

\* the closing \} of the pattern: greedy [^@]*\} ends at the last brace of the region
LastBrace(bib, s) ==
    LET braces == {c \in s..RegionEnd(bib, s) : bib[c] = "}"}
    IN  IF braces = {} THEN 0 ELSE SetMax(braces)

\* name\s*=\s* at position d: the position after it, 0 when it does not match
FieldEqAt(bib, d, name) ==
    IF MatchAtCI(bib, d, name)
    THEN LET e == RunEnd(bib, d + Len(name), SpaceSet)
         IN  IF e <= Len(bib) /\ bib[e] = "=" THEN e + 1 ELSE 0
    ELSE 0

DoiField == <<"d", "o", "i">>

TitleField == <<"t", "i", "t", "l", "e">>

\* doi\s*=\s*[{\"]?<doi>[}\"]? somewhere in the region of the opener at s, with a closing
\* brace after it
DoiEntryAt(bib, s, doi) ==
    /\ OpenerEnd(bib, s) # 0
    /\ \E d \in OpenerEnd(bib, s)..RegionEnd(bib, s) :
          /\ FieldEqAt(bib, d, DoiField) # 0
          /\ LET v == RunEnd(bib, FieldEqAt(bib, d, DoiField), SpaceSet)
                 t == IF v <= Len(bib) /\ bib[v] \in {"{", "\""} THEN v + 1 ELSE v
             IN  /\ MatchAtCI(bib, t, doi)
                 /\ t + Len(doi) - 1 <= RegionEnd(bib, s)
                 /\ LastBrace(bib, s) >= t + Len(doi)

\* title\s*=\s*[{\"]?[^@{\n]*<title>[^@{\n]*[}\"]? somewhere in the region of the opener
\* at s, with a closing brace after it
TitleEntryAt(bib, s, title) ==
    /\ OpenerEnd(bib, s) # 0
    /\ \E d \in OpenerEnd(bib, s)..RegionEnd(bib, s) :
          /\ FieldEqAt(bib, d, TitleField) # 0
          /\ LET e == FieldEqAt(bib, d, TitleField)
             IN  \E w \in e..RunEnd(bib, e, SpaceSet) :
                   \E o \in {0, 1} :
                      /\ o = 1 => (w <= Len(bib) /\ bib[w] \in {"{", "\""})
                      /\ \E t \in (w + o)..(RunEndNot(bib, w + o, {"@", "{", "\n"})) :
                            /\ MatchAtCI(bib, t, title)
                            /\ t + Len(title) - 1 <= RegionEnd(bib, s)
                            /\ LastBrace(bib, s) >= t + Len(title)

\* re.compile(r'@\w+\{[^@]*doi\s*=\s*[{\"]?%s[}\"]?[^@]*\}' % re.escape(doi),
\*            re.IGNORECASE|re.DOTALL).search(bib_content); group(0)
BibEntryByDoi(bib, doi) ==
    LET starts == {s \in 1..Len(bib) : DoiEntryAt(bib, s, doi)}
    IN  IF starts = {} THEN NoMatch
        ELSE LET s == SetMin(starts) IN Match(SubSeq(bib, s, LastBrace(bib, s)))

\* re.compile(r'@\w+\{[^@]*title\s*=\s*[{\"]?[^@{\n]*%s[^@{\n]*[}\"]?[^@]*\}'
\*            % re.escape(title), re.IGNORECASE|re.DOTALL).search(bib_content); group(0)
BibEntryByTitle(bib, title) ==
    LET starts == {s \in 1..Len(bib) : TitleEntryAt(bib, s, title)}
    IN  IF starts = {} THEN NoMatch
        ELSE LET s == SetMin(starts) IN Match(SubSeq(bib, s, LastBrace(bib, s)))

\* one decimal digit
DigitOf(d) == DigitChars[d + 1]

\* str(n)
RECURSIVE Decimal(_)
Decimal(n) == IF n < 10 THEN <<DigitOf(n)>> ELSE Append(Decimal(n \div 10), DigitOf(n % 10))

\* f"{idx:03d}"
Format03d(n) ==
    LET d == Decimal(n)
    IN  IF Len(d) >= 3 THEN d ELSE [i \in 1..(3 - Len(d)) |-> "0"] \o d

\* f"ref{idx:03d}"
RefKey(idx) == <<"r", "e", "f">> \o Format03d(idx)

\* (@\w+\{)[^,]+, at position s: the position of the comma, 0 when it does not match
KeyCommaAt(entry, s) ==
    IF OpenerEnd(entry, s) = 0 THEN 0
    ELSE LET b == OpenerEnd(entry, s)
             c == RunEndNot(entry, b, {","})
         IN  IF c > b /\ c <= Len(entry) THEN c ELSE 0

\* re.sub(r"(@\w+\{)[^,]+,", repl_key, bib_entry, count=1)
ReplaceKey(bib_entry, ref_key) ==
    LET starts == {s \in 1..Len(bib_entry) : KeyCommaAt(bib_entry, s) # 0}
    IN  IF starts = {} THEN bib_entry
        ELSE LET s == SetMin(starts)
             IN  SubSeq(bib_entry, 1, OpenerEnd(bib_entry, s) - 1) \o ref_key \o <<",">>
                   \o SubSeq(bib_entry, KeyCommaAt(bib_entry, s) + 1, Len(bib_entry))

(* ------------------------------------------------------------------ *)
(* The regular expressions of extract_references_from_markdown and     *)
(* split_references                                                    *)
(* ------------------------------------------------------------------ *)

\* ^ under re.MULTILINE at position p
LineStart(text, p) == p = 1 \/ (p >= 2 /\ p <= Len(text) + 1 /\ text[p - 1] = "\n")

\* $ under re.MULTILINE at position p
LineEnd(text, p) == p = Len(text) + 1 \/ (p >= 1 /\ p <= Len(text) /\ text[p] = "\n")

HeadingWords == {<<"r", "e", "f", "e", "r", "e", "n", "c", "e", "s">>,
                 <<"b", "i", "b", "l", "i", "o", "g", "r", "a", "p", "h", "y">>}

\* ^## +(?:References|Bibliography)\s*$ at position p: match.end() as a position
\* (the first character not consumed), 0 when the pattern does not match at p
RefHeadingEnd(text, p) ==
    IF ~(LineStart(text, p) /\ MatchAt(text, p, <<"#", "#", " ">>)) THEN 0
    ELSE LET w == RunEnd(text, p + 3, {" "})
             words == {h \in HeadingWords : MatchAtCI(text, w, h)}
         IN  IF words = {} THEN 0
             ELSE LET a == w + Len(CHOOSE h \in words : TRUE)
                      ends == {e \in a..RunEnd(text, a, SpaceSet) : LineEnd(text, e)}
                  IN  IF ends = {} THEN 0 ELSE SetMax(ends)

\* ^## +.+$ at position p of a text
SectionHeadingAt(text, p) ==
    /\ LineStart(text, p)
    /\ MatchAt(text, p, <<"#", "#", " ">>)
    /\ p + 3 <= Len(text)
    /\ text[p + 3] # "\n"

\* extract_references_from_markdown without the search for the next section: the
\* block runs to the end of the document
extract_references_to_end(md_content) ==
    LET heads == {p \in 1..Len(md_content) : RefHeadingEnd(md_content, p) # 0}
    IN  IF heads = {} THEN <<>>
        ELSE Strip(SubSeq(md_content, RefHeadingEnd(md_content, SetMin(heads)),
                          Len(md_content)))

\* extract_references_from_markdown(md_content)
extract_references_from_markdown(md_content) ==
    LET heads == {p \in 1..Len(md_content) : RefHeadingEnd(md_content, p) # 0}
    IN  IF heads = {} THEN <<>>
        ELSE LET start == RefHeadingEnd(md_content, SetMin(heads))
                 rest == SubSeq(md_content, start, Len(md_content))
                 nexts == {q \in 1..Len(rest) : SectionHeadingAt(rest, q)}
                 end == IF nexts = {} THEN Len(md_content)
                        ELSE start + SetMin(nexts) - 2
             IN  Strip(SubSeq(md_content, start, end))

\* MarkerEnd that knows the style N. only
MarkerEndDotOnly(block, r) ==
    LET d == RunEnd(block, r, DigitSet)
    IN  IF d > r /\ MatchAt(block, d, <<".">>) THEN d + 1 ELSE 0

\* (\d+\\\.|\d+\.|\[\d+\]|\d+\)) at position r: the position after the marker, 0
\* when there is none
MarkerEnd(block, r) ==
    LET d == RunEnd(block, r, DigitSet)
        b == RunEnd(block, r + 1, DigitSet)
    IN  IF d > r
        THEN IF MatchAt(block, d, <<"\\", ".">>) THEN d + 2
             ELSE IF MatchAt(block, d, <<".">>) \/ MatchAt(block, d, <<")">>) THEN d + 1
             ELSE 0
        ELSE IF MatchAt(block, r, <<"[">>) /\ b > r + 1 /\ MatchAt(block, b, <<"]">>)
             THEN b + 1
             ELSE 0

\* (?:^|\n)\s*(marker)\s+ at position p: where the marker starts and ends and where
\* the match ends (positions after the last character), or found = FALSE
SeparatorAt(block, p) ==
    LET q == IF p <= Len(block) /\ block[p] = "\n" THEN p + 1 ELSE p
        r == RunEnd(block, q, SpaceSet)
        m == MarkerEnd(block, r)
        e == RunEnd(block, m, SpaceSet)
    IN  IF /\ p = 1 \/ (p <= Len(block) /\ block[p] = "\n")
           /\ m # 0
           /\ e > m
        THEN [found |-> TRUE, from |-> p, sep |-> SubSeq(block, r, m - 1), to |-> e]
        ELSE [found |-> FALSE, from |-> 0, sep |-> <<>>, to |-> 0]

\* the matches re.split finds from position p on, left to right, none overlapping
RECURSIVE Separators(_, _)
Separators(block, p) ==
    LET starts == {q \in p..Len(block) : SeparatorAt(block, q).found}
    IN  IF starts = {} THEN <<>>
        ELSE <<SeparatorAt(block, SetMin(starts))>>
                \o Separators(block, SeparatorAt(block, SetMin(starts)).to)

\* RefsOf that does not put the marker back in front of its text
RefsOfWithoutMarker(block, seps) ==
    [i \in 1..Len(seps) |->
        Strip(SubSeq(block, seps[i].to,
                     IF i < Len(seps) THEN seps[i + 1].from - 1 ELSE Len(block)))]

\* refs.append(f'{sep} {ref}'.strip()) for the pairs (sep, ref) of re.split
RefsOf(block, seps) ==
    [i \in 1..Len(seps) |->
        Strip(seps[i].sep \o <<" ">>
              \o SubSeq(block, seps[i].to,
                        IF i < Len(seps) THEN seps[i + 1].from - 1 ELSE Len(block)))]

IsNotBlank(r) == Strip(r) # <<>>

\* split_references that takes a block without any marker for one citation
split_references_unmarked(references_block) ==
    IF Strip(references_block) = <<>> THEN <<>>
    ELSE LET block == IF SeparatorAt(references_block, 1).found
                      THEN references_block
                      ELSE <<"\n">> \o references_block
         IN  IF Separators(block, 1) = <<>> THEN <<Strip(references_block)>>
             ELSE SelectSeq(RefsOf(block, Separators(block, 1)), IsNotBlank)

\* split_references(references_block)
split_references(references_block) ==
    IF Strip(references_block) = <<>> THEN <<>>
    ELSE LET block == IF SeparatorAt(references_block, 1).found
                      THEN references_block
                      ELSE <<"\n">> \o references_block
         IN  SelectSeq(RefsOf(block, Separators(block, 1)), IsNotBlank)

(* ------------------------------------------------------------------ *)
(* Inputs: citation lists and bibliography files                       *)
(* ------------------------------------------------------------------ *)

\* the longest citation list
MaxRefs == 3

\* "1. Ab. 2020 doi:d/1"
RefDoi1 == <<"1", ".", " ", "A", "b", ".", " ", "2", "0", "2", "0", " ", "d", "o", "i", ":", "d", "/", "1">>

\* "2. Ab. 2020"
RefTitleAb == <<"2", ".", " ", "A", "b", ".", " ", "2", "0", "2", "0">>

\* "3. AB. 2020 doi:d/9"
RefDoi9 == <<"3", ".", " ", "A", "B", ".", " ", "2", "0", "2", "0", " ", "d", "o", "i", ":", "d", "/", "9">>

\* "4. Ab. 2020 doi:d/12"
RefDoi12 == <<"4", ".", " ", "A", "b", ".", " ", "2", "0", "2", "0", " ", "d", "o", "i", ":", "d", "/", "1", "2">>

\* "5. Ef. 2020 doi:d/9"
RefDoi9Ef == <<"5", ".", " ", "E", "f", ".", " ", "2", "0", "2", "0", " ", "d", "o", "i", ":", "d", "/", "9">>

\* "6. Zz"
RefPlain == <<"6", ".", " ", "Z", "z">>

Citations == {RefDoi1, RefTitleAb, RefDoi9, RefDoi12, RefDoi9Ef, RefPlain}

\* the non-empty citation lists analyze_files passes (it calls the export only
\* "if references_list")
RefLists == UNION {[1..n -> Citations] : n \in 1..MaxRefs}

\* "@a{k1,doi={d/1},title={Ab}}"
EntryK1 == <<"@", "a", "{", "k", "1", ",", "d", "o", "i", "=", "{", "d", "/", "1", "}", ",",
             "t", "i", "t", "l", "e", "=", "{", "A", "b", "}", "}">>

\* "@a{k2,doi={d/12},title={Cd}}"
EntryK2 == <<"@", "a", "{", "k", "2", ",", "d", "o", "i", "=", "{", "d", "/", "1", "2", "}", ",",
             "t", "i", "t", "l", "e", "=", "{", "C", "d", "}", "}">>

\* "@a{k3,title={{Ef}}}"
EntryK3 == <<"@", "a", "{", "k", "3", ",", "t", "i", "t", "l", "e", "=", "{", "{", "E", "f", "}", "}", "}">>

BibA == EntryK1 \o <<"\n">> \o EntryK2

BibB == EntryK2 \o <<"\n">> \o EntryK3

\* the file at bibtex_path: what open()/read() does with it
BibFiles == {[error |-> "none", content |-> BibA],
             [error |-> "none", content |-> BibB],
             [error |-> "FileNotFoundError", content |-> <<>>],
             [error |-> "UnicodeDecodeError", content |-> <<>>]}

\* the citation text of the title example: ". Smith JA, et al. A Study of X. 2023"
SmithText == <<".", " ", "S", "m", "i", "t", "h", " ", "J", "A", ",", " ", "e", "t", " ", "a", "l",
               ".", " ", "A", " ", "S", "t", "u", "d", "y", " ", "o", "f", " ", "X",
               ".", " ", "2", "0", "2", "3">>

\* the most pieces a generated citation text is made of
MaxPieces == 5

\* what the generated citation texts are made of: ". ", "Ab", ". 2020", "*", "\"", " "
TitlePieces == {<<".", " ">>, <<"A", "b">>, <<".", " ", "2", "0", "2", "0">>, <<"*">>, <<"\"">>,
                <<" ">>}

RECURSIVE Concat(_)
Concat(pieces) ==
    IF pieces = <<>> THEN <<>> ELSE Head(pieces) \o Concat(Tail(pieces))

\* citation texts that exercise the title pattern
TitleTexts ==
    {SmithText} \cup
    {Concat(ps) : ps \in UNION {[1..n -> TitlePieces] : n \in 1..MaxPieces}}

(* ------------------------------------------------------------------ *)
(* Inputs: what analyze_files finds on disk                            *)
(* ------------------------------------------------------------------ *)

\* the most analyses run one after the other on one window and output directory
MaxRuns == 3

\* "# T\nx": no references section
DocPlain == <<"#", " ", "T", "\n", "x">>

\* "## References\n1. Ab. 2020 doi:d/1\n## Next\nz"
DocOne == <<"#", "#", " ", "R", "e", "f", "e", "r", "e", "n", "c", "e", "s", "\n",
            "1", ".", " ", "A", "b", ".", " ", "2", "0", "2", "0", " ", "d", "o", "i", ":", "d", "/", "1", "\n",
            "#", "#", " ", "N", "e", "x", "t", "\n", "z">>

\* "## references\n\n[1] Zz\n2) Ab. 2020"
DocTwo == <<"#", "#", " ", "r", "e", "f", "e", "r", "e", "n", "c", "e", "s", "\n", "\n",
            "[", "1", "]", " ", "Z", "z", "\n",
            "2", ")", " ", "A", "b", ".", " ", "2", "0", "2", "0">>

FileA == [error |-> "none", content |-> BibA]

FileB == [error |-> "none", content |-> BibB]

FileMissing == [error |-> "FileNotFoundError", content |-> <<>>]

\* one analysis: what pandoc does, the Markdown it leaves, the file at the path of
\* the bibliography
RunInput(conversion, md, bibliography) ==
    [conversion |-> conversion, md |-> md, bibliography |-> bibliography]

FailedConversions == {RunInput(c, <<>>, FileA) : c \in {"failed", "no_output", "unreadable"}}

RunInputs ==
    {RunInput("ok", DocPlain, FileA), RunInput("ok", DocOne, FileA),
     RunInput("ok", DocTwo, FileA), RunInput("ok", DocTwo, FileB),
     RunInput("ok", DocOne, FileMissing), RunInput("failed", <<>>, FileA)}

\* the analyses of one session, in order
RunScripts == UNION {[1..n -> RunInputs] : n \in 1..MaxRuns}

\* the most lines a generated Markdown text or references block is made of
MaxLines == 4

\* lines of Markdown: "## References", "## BIBLIOGRAPHY ", "## Next", "### Sub",
\* "## References x", "1. Ab. 2020", "", "text"
MdLines == {<<"#", "#", " ", "R", "e", "f", "e", "r", "e", "n", "c", "e", "s">>,
            <<"#", "#", " ", "B", "I", "B", "L", "I", "O", "G", "R", "A", "P", "H", "Y", " ">>,
            <<"#", "#", " ", "N", "e", "x", "t">>,
            <<"#", "#", "#", " ", "S", "u", "b">>,
            <<"#", "#", " ", "R", "e", "f", "e", "r", "e", "n", "c", "e", "s", " ", "x">>,
            <<"1", ".", " ", "A", "b", ".", " ", "2", "0", "2", "0">>,
            <<>>,
            <<"t", "e", "x", "t">>}

\* lines of a references block: "1. Ab. 2020", "[7] Zz", "3) Ab. 2020 doi:d/1",
\* "1\. Cd. 2020", " 2. Zz", ""
BlockLines == {<<"1", ".", " ", "A", "b", ".", " ", "2", "0", "2", "0">>,
               <<"[", "7", "]", " ", "Z", "z">>,
               <<"3", ")", " ", "A", "b", ".", " ", "2", "0", "2", "0", " ", "d", "o", "i", ":", "d", "/", "1">>,
               <<"1", "\\", ".", " ", "C", "d", ".", " ", "2", "0", "2", "0">>,
               <<" ", "2", ".", " ", "Z", "z">>,
               <<>>}

LinesOf(kinds, n) == UNION {[1..m -> kinds] : m \in 1..n}

\* Markdown texts that exercise the section heading patterns
HeadingTexts == {Join(ls, <<"\n">>) : ls \in LinesOf(MdLines, MaxLines)}

\* Markdown texts whose references section exercises the marker pattern
MarkerTexts ==
    {Join(<<<<"#", "#", " ", "R", "e", "f", "e", "r", "e", "n", "c", "e", "s">>>> \o ls, <<"\n">>) :
        ls \in LinesOf(BlockLines, MaxLines)}

ParseInputs ==
    {RunInput("ok", md, FileA) : md \in HeadingTexts \cup MarkerTexts}
    \cup {RunInput("ok", DocOne, FileMissing)} \cup FailedConversions

\* the most pieces a references block given to split_references is made of
MaxTokens == 5

\* pieces of a references block: "1. ", "[2] ", "3) ", "2.", "ab", " ", "\n"
SplitTokens == {<<"1", ".", " ">>, <<"[", "2", "]", " ">>, <<"3", ")", " ">>,
                <<"2", ".">>, <<"a", "b">>, <<" ">>, <<"\n">>}

\* references blocks on one or several lines, with text before the first marker,
\* markers inside a line and markers without text
SplitBlocks ==
    {Concat(ts) : ts \in UNION {[1..n -> SplitTokens] : n \in 0..MaxTokens}}

(* ------------------------------------------------------------------ *)
(* State                                                               *)
(* ------------------------------------------------------------------ *)

VARIABLES
    pc,               \* where export_all_references_to_bib stands
    references_list,  \* argument: the citations, in order of appearance
    bibtex_file,      \* the file at argument bibtex_path
    bib_content,      \* local
    idx,              \* loop variable: the ordinal of the citation taken last
    ref_text,         \* loop variable: its text
    bib_entry,        \* local: the entry matched for it, or None
    entries,          \* local: the rekeyed entries accepted so far
    seen_dois,        \* local
    seen_titles,      \* local
    log_lines,        \* local: the audit buffer
    debug_lines,      \* local: the diagnostic buffer
    status_label,     \* self.status_bar: the message shown last
    bib_out,          \* output_dir / "references.bib"
    export_log,       \* output_dir / "references_export.log"
    debug_log,        \* output_dir / "references_debug.log"
    project_data,     \* self.project_data: which of the three inputs are selected
    current_file,     \* FileDropZone.current_file of the three input zones
    analyze_button,   \* self.analyze_button: enabled or not
    inputs,           \* what the coming analyses will find on disk, one record each
    md_content,       \* analyze_files: the Markdown read from content.md
    references_block, \* analyze_files: the references section extracted from it
    references_editor,\* self.references_editor: the text shown
    generate_button,  \* self.generate_button: enabled or not
    output_dir,       \* whether output/<docx name> exists
    md_error_log,     \* output_dir / "markdown_read_error.log"
    runs,             \* how many times analyze_files has been entered
    calls             \* the export calls that have returned: arguments and results

\* the window and the analysis around the export call
ui == <<project_data, current_file, analyze_button, inputs, md_content, references_block, references_editor,
        generate_button, output_dir, md_error_log, runs, calls>>

vars == <<pc, references_list, bibtex_file, bib_content, idx, ref_text, bib_entry,
          entries, seen_dois, seen_titles, log_lines, debug_lines, status_label,
          bib_out, export_log, debug_log, ui>>

\* one formatted line: the template it comes from, the integer and the text it
\* interpolates
Line(tag, num, val) == [tag |-> tag, num |-> num, val |-> val]

\* a path of the output directory: no file, or a file and its content
Absent == [exists |-> FALSE, content |-> <<>>]

\* with open(path, "a"): what is written is added to what the file held
WriteFileAppends(old, content, opened) ==
    IF opened THEN [exists |-> TRUE, content |-> old.content \o content] ELSE old

\* with open(path, "w") as f: f.write(content), which either opens and replaces
\* the file or raises and leaves it as it was
WriteFile(old, content, opened) ==
    IF opened THEN [exists |-> TRUE, content |-> content] ELSE old

(* ------------------------------------------------------------------ *)
(* The body of the export loop                                         *)
(* ------------------------------------------------------------------ *)

\* what one strategy leaves behind: whether it ended the iteration ("continue"),
\* bib_entry, its dedup set, and the lines it appended to log_lines
Stage(skip, entry, seen, log) ==
    [skip |-> skip, bib_entry |-> entry, seen |-> seen, log |-> log]

\* DoiStage without the test "if doi in seen_dois"
DoiStageNoDedup(k, doi_match, bib, dois) ==
    LET doi == doi_match.group
        found == Line("FOUND_DOI", k, doi)
    IN  IF ~doi_match.found
        THEN Stage(FALSE, NoMatch, dois, <<>>)
        ELSE IF BibEntryByDoi(bib, doi).found
        THEN Stage(FALSE, BibEntryByDoi(bib, doi), dois \cup {doi},
                   <<found, Line("OK_DOI", k, doi)>>)
        ELSE Stage(FALSE, NoMatch, dois, <<found, Line("FAIL_DOI", k, doi)>>)

\* DoiStage with seen_dois.add(doi) before the search instead of after a match
DoiStageMarksUnmatched(k, doi_match, bib, dois) ==
    LET doi == doi_match.group
        found == Line("FOUND_DOI", k, doi)
    IN  IF ~doi_match.found
        THEN Stage(FALSE, NoMatch, dois, <<>>)
        ELSE IF doi \in dois
        THEN Stage(TRUE, NoMatch, dois, <<found, Line("SKIP_DOI", k, doi)>>)
        ELSE IF BibEntryByDoi(bib, doi).found
        THEN Stage(FALSE, BibEntryByDoi(bib, doi), dois \cup {doi},
                   <<found, Line("OK_DOI", k, doi)>>)
        ELSE Stage(FALSE, NoMatch, dois \cup {doi}, <<found, Line("FAIL_DOI", k, doi)>>)

\* "Match by DOI", given doi_match
DoiStage(k, doi_match, bib, dois) ==
    LET doi == doi_match.group
        found == Line("FOUND_DOI", k, doi)
    IN  IF ~doi_match.found
        THEN Stage(FALSE, NoMatch, dois, <<>>)
        ELSE IF doi \in dois
        THEN Stage(TRUE, NoMatch, dois, <<found, Line("SKIP_DOI", k, doi)>>)
        ELSE IF BibEntryByDoi(bib, doi).found
        THEN Stage(FALSE, BibEntryByDoi(bib, doi), dois \cup {doi},
                   <<found, Line("OK_DOI", k, doi)>>)
        ELSE Stage(FALSE, NoMatch, dois, <<found, Line("FAIL_DOI", k, doi)>>)

\* title_match.group(2).strip()
TitleOf(title_match) ==
    IF title_match.found THEN Match(Strip(title_match.group)) ELSE NoMatch

\* TitleStage without the test "if title.lower() in seen_titles"
TitleStageNoDedup(k, title, bib, titles) ==
    LET found == Line("FOUND_TITLE", k, title.group)
    IN  IF ~title.found
        THEN Stage(FALSE, NoMatch, titles, <<Line("NO_TITLE", k, <<>>)>>)
        ELSE IF BibEntryByTitle(bib, title.group).found
        THEN Stage(FALSE, BibEntryByTitle(bib, title.group),
                   titles \cup {Lower(title.group)},
                   <<found, Line("OK_TITLE", k, title.group)>>)
        ELSE Stage(FALSE, NoMatch, titles, <<found, Line("FAIL_TITLE", k, title.group)>>)

\* TitleStage that also records the title it did not find in the bibliography
TitleStageMarksUnmatched(k, title, bib, titles) ==
    LET found == Line("FOUND_TITLE", k, title.group)
    IN  IF ~title.found
        THEN Stage(FALSE, NoMatch, titles, <<Line("NO_TITLE", k, <<>>)>>)
        ELSE IF Lower(title.group) \in titles
        THEN Stage(TRUE, NoMatch, titles, <<found, Line("SKIP_TITLE", k, title.group)>>)
        ELSE IF BibEntryByTitle(bib, title.group).found
        THEN Stage(FALSE, BibEntryByTitle(bib, title.group),
                   titles \cup {Lower(title.group)},
                   <<found, Line("OK_TITLE", k, title.group)>>)
        ELSE Stage(FALSE, NoMatch, titles \cup {Lower(title.group)},
                   <<found, Line("FAIL_TITLE", k, title.group)>>)

\* "Else, match by title", given the title extracted (or no title_match)
TitleStage(k, title, bib, titles) ==
    LET found == Line("FOUND_TITLE", k, title.group)
    IN  IF ~title.found
        THEN Stage(FALSE, NoMatch, titles, <<Line("NO_TITLE", k, <<>>)>>)
        ELSE IF Lower(title.group) \in titles
        THEN Stage(TRUE, NoMatch, titles, <<found, Line("SKIP_TITLE", k, title.group)>>)
        ELSE IF BibEntryByTitle(bib, title.group).found
        THEN Stage(FALSE, BibEntryByTitle(bib, title.group),
                   titles \cup {Lower(title.group)},
                   <<found, Line("OK_TITLE", k, title.group)>>)
        ELSE Stage(FALSE, NoMatch, titles, <<found, Line("FAIL_TITLE", k, title.group)>>)

\* AfterDoi with the title strategy run whether or not the DOI strategy accepted
AfterDoiAlwaysTitle(d) == IF d.skip THEN "for" ELSE "title"

\* AfterDoi with "return" in the place of "continue"
AfterDoiSkipReturns(d) ==
    IF d.skip THEN "done" ELSE IF d.bib_entry.found THEN "export" ELSE "title"

\* where the DOI strategy leaves the iteration: "continue" on a duplicate, the
\* title strategy "if not bib_entry", else the export
AfterDoi(d) == IF d.skip THEN "for" ELSE IF d.bib_entry.found THEN "export" ELSE "title"

\* AfterTitle without the "continue" of a duplicate title
AfterTitleNoContinue(t) == "export"

\* where the title strategy leaves the iteration: "continue" on a duplicate, else
\* the export
AfterTitle(t) == IF t.skip THEN "for" ELSE "export"

\* the snapshot appended to debug_lines at the end of an iteration
DebugAfter(k, n, dois, titles) ==
    Line("DEBUG_AFTER", k, [entries |-> n, seen_dois |-> dois, seen_titles |-> titles])

\* debug_lines as built before the loop
DebugHeader(path, content, refs) ==
    <<Line("DEBUG_FILE", 0, path), Line("DEBUG_SIZE", Len(content), <<>>),
      Line("DEBUG_COUNT", Len(refs), <<>>), Line("DEBUG_LIST", 0, <<>>)>>
      \o [i \in 1..Len(refs) |-> Line("DEBUG_REF", i, refs[i])]
      \o <<Line("DEBUG_BEGIN", 0, <<>>)>>

\* "/in/refs.bib"
bibtex_path == <<"/", "i", "n", "/", "r", "e", "f", "s", ".", "b", "i", "b">>

\* "% LOG: BibTeX export at end of script\n"
Provenance == <<"%", " ", "L", "O", "G", ":", " ", "B", "i", "b", "T", "e", "X", " ", "e", "x",
                "p", "o", "r", "t", " ", "a", "t", " ", "e", "n", "d", " ", "o", "f", " ",
                "s", "c", "r", "i", "p", "t", "\n">>

\* BibText with the entries joined by one line break
BibTextNoBlankLine(accepted) == Provenance \o Join(accepted, <<"\n">>) \o <<"\n">>

\* what the two f.write calls put in references.bib
BibText(accepted) == Provenance \o Join(accepted, <<"\n", "\n">>) \o <<"\n">>

(* ------------------------------------------------------------------ *)
(* export_all_references_to_bib, step by step                          *)
(* ------------------------------------------------------------------ *)

\* the three input zones, by the key of self.project_data they fill
Zones == {"docx_file", "template_folder", "bibtex_file"}

\* bool(file_path): a path is selected when the string is not empty
IsSelected(file_path) == file_path # <<>>

\* self.project_data as update_ui_state leaves it: for each input whether a path is
\* selected (non-empty), and "is_ready", whether all three are
ProjectData ==
    {[docx_file |-> d, template_folder |-> t, bibtex_file |-> b, is_ready |-> d /\ t /\ b] :
        d \in BOOLEAN, t \in BOOLEAN, b \in BOOLEAN}

AllSelected ==
    [docx_file |-> TRUE, template_folder |-> TRUE, bibtex_file |-> TRUE, is_ready |-> TRUE]

\* "/in/a", "/in/b", "/out/a"
PathInA == <<"/", "i", "n", "/", "a">>

PathInB == <<"/", "i", "n", "/", "b">>

PathOutA == <<"/", "o", "u", "t", "/", "a">>

\* the paths a zone hands to set_file: a valid drop and a browse that was not
\* cancelled both give a non-empty path
ZonePaths == {PathInA, PathInB, PathOutA}

\* Path(file_path).name: the text after the last "/"
PathName(file_path) ==
    LET slashes == {i \in DOMAIN file_path : file_path[i] = "/"}
    IN  IF slashes = {} THEN file_path
        ELSE SubSeq(file_path, SetMax(slashes) + 1, Len(file_path))

\* the paths the zones show when these inputs are selected
PathsOf(selected) == [z \in Zones |-> IF selected[z] THEN PathInA ELSE <<>>]

\* the status a handler sets last, after update_ui_state: the name of the path
\* selected, or that the input was removed
HandlerStatus(z, file_path) ==
    LET what == CASE z = "docx_file" -> "DOCX"
                  [] z = "template_folder" -> "TEMPLATE"
                  [] z = "bibtex_file" -> "BIBTEX"
    IN  IF IsSelected(file_path)
        THEN Line("SELECTED", 0, <<what, PathName(file_path)>>)
        ELSE Line("REMOVED", 0, <<what>>)

\* update_ui_state with the readiness taken from the document and the template
\* only
update_ui_state_two_inputs(data) ==
    LET all_files_ready == data.docx_file /\ data.template_folder
    IN  [project_data |-> [data EXCEPT !.is_ready = all_files_ready],
         analyze_button |-> all_files_ready,
         status_label |-> IF all_files_ready THEN <<Line("ALL_READY", 0, <<>>)>>
                          ELSE IF ~(data.docx_file \/ data.template_folder \/ data.bibtex_file)
                          THEN <<Line("SELECT_FILES", 0, <<>>)>>
                          ELSE <<>>]

\* update_ui_state() on self.project_data = data: "is_ready" and the analyze
\* button take all_files_ready; the status it sets, if it sets one
update_ui_state(data) ==
    LET all_files_ready == data.docx_file /\ data.template_folder /\ data.bibtex_file
    IN  [project_data |-> [data EXCEPT !.is_ready = all_files_ready],
         analyze_button |-> all_files_ready,
         status_label |-> IF all_files_ready THEN <<Line("ALL_READY", 0, <<>>)>>
                          ELSE IF ~(data.docx_file \/ data.template_folder \/ data.bibtex_file)
                          THEN <<Line("SELECT_FILES", 0, <<>>)>>
                          ELSE <<>>]

\* on_docx_selected / on_template_selected / on_bibtex_selected (file_path), the
\* slot of zone z: the path is stored, update_ui_state runs, the handler's status
\* replaces the one update_ui_state may have set
OnFileSelected(z, file_path) ==
    \E ui_state \in {update_ui_state([project_data EXCEPT ![z] = IsSelected(file_path)])} :
       /\ project_data' = ui_state.project_data
       /\ analyze_button' = ui_state.analyze_button
       /\ status_label' = HandlerStatus(z, file_path)

Init ==
    /\ pc = "call"
    /\ references_list \in RefLists
    /\ bibtex_file \in BibFiles
    /\ bib_content = <<>>
    /\ idx = 0
    /\ ref_text = <<>>
    /\ bib_entry = NoMatch
    /\ entries = <<>>
    /\ seen_dois = {}
    /\ seen_titles = {}
    /\ log_lines = <<>>
    /\ debug_lines = <<>>
    /\ status_label = Line("READY", 0, <<>>)
    /\ bib_out = Absent
    /\ export_log = Absent
    /\ debug_log = Absent
    /\ project_data = AllSelected
    /\ current_file = PathsOf(AllSelected)
    /\ analyze_button = TRUE
    /\ inputs = <<>>
    /\ md_content = <<>>
    /\ references_block = <<>>
    /\ references_editor = Line("EMPTY", 0, <<>>)
    /\ generate_button = FALSE
    /\ output_dir = TRUE
    /\ md_error_log = Absent
    /\ runs = 0
    /\ calls = <<>>

\* a message that names the kind of the exception only
ExceptionStrKind(error, path) == <<error>>

\* str(e) for the exception open() or read() raises: an OSError names the file,
\* a UnicodeDecodeError names the codec and the byte
ExceptionStr(error, path) ==
    IF error = "FileNotFoundError"
    THEN <<"[Errno 2] No such file or directory: '">> \o path \o <<"'">>
    ELSE <<"'utf-8' codec can't decode byte">>

\* ReadBibtex with seen_dois kept on the object: the DOIs accepted by the calls
\* that returned earlier are still in it
ReadBibtexKeepsSeen ==
    /\ pc = "call"
    /\ bibtex_file.error = "none"
    /\ bib_content' = bibtex_file.content
    /\ log_lines' = <<Line("LOADED", 0, bibtex_path)>>
    /\ entries' = <<>>
    /\ seen_dois' = UNION {{calls[i].log_lines[j].val :
                               j \in {j \in DOMAIN calls[i].log_lines :
                                         calls[i].log_lines[j].tag = "OK_DOI"}} :
                           i \in DOMAIN calls}
    /\ seen_titles' = {}
    /\ debug_lines' = DebugHeader(bibtex_path, bibtex_file.content, references_list)
    /\ pc' = "for"
    /\ UNCHANGED <<references_list, bibtex_file, idx, ref_text, bib_entry, status_label,
                   bib_out, export_log, debug_log>>
    /\ UNCHANGED ui

\* the try block that reads bibtex_path, and the locals set up before the loop
ReadBibtex ==
    /\ pc = "call"
    /\ bibtex_file.error = "none"
    /\ bib_content' = bibtex_file.content
    /\ log_lines' = <<Line("LOADED", 0, bibtex_path)>>
    /\ entries' = <<>>
    /\ seen_dois' = {}
    /\ seen_titles' = {}
    /\ debug_lines' = DebugHeader(bibtex_path, bibtex_file.content, references_list)
    /\ pc' = "for"
    /\ UNCHANGED <<references_list, bibtex_file, idx, ref_text, bib_entry, status_label,
                   bib_out, export_log, debug_log>>
    /\ UNCHANGED ui

\* ReadBibtexFails with the debug file written as after the loop
ReadBibtexFailsWritesDump ==
    /\ pc = "call"
    /\ bibtex_file.error # "none"
    /\ status_label' = Line("READ_ERROR", 0, ExceptionStr(bibtex_file.error, bibtex_path))
    /\ log_lines' = <<Line("ERROR_READ", 0, ExceptionStr(bibtex_file.error, bibtex_path))>>
    /\ \E opened \in BOOLEAN : export_log' = WriteFile(export_log, log_lines', opened)
    /\ \E opened \in BOOLEAN : debug_log' = WriteFile(debug_log, debug_lines, opened)
    /\ pc' = "done"
    /\ UNCHANGED <<references_list, bibtex_file, bib_content, idx, ref_text, bib_entry,
                   entries, seen_dois, seen_titles, debug_lines, bib_out>>
    /\ UNCHANGED ui

\* the except branch of the read: status, one log line, the log file, return
ReadBibtexFails ==
    /\ pc = "call"
    /\ bibtex_file.error # "none"
    /\ status_label' = Line("READ_ERROR", 0, ExceptionStr(bibtex_file.error, bibtex_path))
    /\ log_lines' = <<Line("ERROR_READ", 0, ExceptionStr(bibtex_file.error, bibtex_path))>>
    /\ \E opened \in BOOLEAN : export_log' = WriteFile(export_log, log_lines', opened)
    /\ pc' = "done"
    /\ UNCHANGED <<references_list, bibtex_file, bib_content, idx, ref_text, bib_entry,
                   entries, seen_dois, seen_titles, debug_lines, bib_out, debug_log>>
    /\ UNCHANGED ui

\* the head of "for idx, ref_text in enumerate(references_list, 1)" and the DOI
\* strategy: a duplicate DOI goes on to the next citation ("continue")
MatchByDoi ==
    /\ pc = "for"
    /\ idx < Len(references_list)
    /\ idx' = idx + 1
    /\ ref_text' = references_list[idx + 1]
    /\ \E doi_match \in {DoiSearch(references_list[idx + 1])} :
         \E d \in {DoiStage(idx + 1, doi_match, bib_content, seen_dois)} :
            /\ bib_entry' = d.bib_entry
            /\ seen_dois' = d.seen
            /\ log_lines' = Append(log_lines, Line("PROCESSING", idx + 1, references_list[idx + 1]))
                              \o d.log
            /\ pc' = AfterDoi(d)
    /\ UNCHANGED <<references_list, bibtex_file, bib_content, entries, seen_titles,
                   debug_lines, status_label, bib_out, export_log, debug_log>>
    /\ UNCHANGED ui

\* "if not bib_entry": the title strategy; a duplicate title goes on to the next
\* citation ("continue")
MatchByTitle ==
    /\ pc = "title"
    /\ \E title \in {TitleOf(TitleSearch(ref_text))} :
         \E t \in {TitleStage(idx, title, bib_content, seen_titles)} :
            /\ bib_entry' = t.bib_entry
            /\ seen_titles' = t.seen
            /\ log_lines' = log_lines \o t.log
            /\ pc' = AfterTitle(t)
    /\ UNCHANGED <<references_list, bibtex_file, bib_content, idx, ref_text, entries,
                   seen_dois, debug_lines, status_label, bib_out, export_log, debug_log>>
    /\ UNCHANGED ui

\* ExportEntry with the key taken from the count of accepted entries
ExportEntryKeyByCount ==
    /\ pc = "export"
    /\ IF bib_entry.found
       THEN /\ entries' = Append(entries, ReplaceKey(bib_entry.group, RefKey(Len(entries) + 1)))
            /\ log_lines' = log_lines \o <<Line("REPLACE_KEY", idx, RefKey(Len(entries) + 1)),
                                           Line("EXPORT", idx, RefKey(Len(entries) + 1))>>
            /\ UNCHANGED status_label
       ELSE /\ status_label' = Line("NOT_FOUND", idx, <<>>)
            /\ log_lines' = Append(log_lines, Line("ERROR_NO_MATCH", idx, ref_text))
            /\ UNCHANGED entries
    /\ debug_lines' = Append(debug_lines, DebugAfter(idx, Len(entries'), seen_dois, seen_titles))
    /\ pc' = "for"
    /\ UNCHANGED <<references_list, bibtex_file, bib_content, idx, ref_text, bib_entry,
                   seen_dois, seen_titles, bib_out, export_log, debug_log>>
    /\ UNCHANGED ui

\* "if bib_entry: ... else: ...", and the snapshot that ends the iteration
ExportEntry ==
    /\ pc = "export"
    /\ IF bib_entry.found
       THEN /\ entries' = Append(entries, ReplaceKey(bib_entry.group, RefKey(idx)))
            /\ log_lines' = log_lines \o <<Line("REPLACE_KEY", idx, RefKey(idx)),
                                           Line("EXPORT", idx, RefKey(idx))>>
            /\ UNCHANGED status_label
       ELSE /\ status_label' = Line("NOT_FOUND", idx, <<>>)
            /\ log_lines' = Append(log_lines, Line("ERROR_NO_MATCH", idx, ref_text))
            /\ UNCHANGED entries
    /\ debug_lines' = Append(debug_lines, DebugAfter(idx, Len(entries'), seen_dois, seen_titles))
    /\ pc' = "for"
    /\ UNCHANGED <<references_list, bibtex_file, bib_content, idx, ref_text, bib_entry,
                   seen_dois, seen_titles, bib_out, export_log, debug_log>>
    /\ UNCHANGED ui

\* after the loop, "if not entries": status, log file and debug file, return
FinishNoEntries ==
    /\ pc = "for"
    /\ idx = Len(references_list)
    /\ entries = <<>>
    /\ debug_lines' = debug_lines \o <<Line("DEBUG_END", 0, <<>>),
                                       Line("DEBUG_TOTAL", Len(entries), <<>>)>>
    /\ status_label' = Line("NONE_EXPORTED", 0, <<>>)
    /\ log_lines' = Append(log_lines, Line("ERROR_NONE_EXPORTED", 0, <<>>))
    /\ \E opened \in BOOLEAN : export_log' = WriteFile(export_log, log_lines', opened)
    /\ \E opened \in BOOLEAN : debug_log' = WriteFile(debug_log, debug_lines', opened)
    /\ pc' = "done"
    /\ UNCHANGED <<references_list, bibtex_file, bib_content, idx, ref_text, bib_entry,
                   entries, seen_dois, seen_titles, bib_out>>
    /\ UNCHANGED ui

\* FinishWrite with a summary that counts the citations of the list, not the
\* entries accepted
FinishWriteCountsCitations ==
    /\ pc = "for"
    /\ idx = Len(references_list)
    /\ entries # <<>>
    /\ debug_lines' = debug_lines \o <<Line("DEBUG_END", 0, <<>>),
                                       Line("DEBUG_TOTAL", Len(entries), <<>>)>>
    /\ \E opened \in BOOLEAN :
          /\ bib_out' = WriteFile(bib_out, BibText(entries), opened)
          /\ status_label' = IF opened THEN Line("EXPORTED", Len(references_list), <<>>)
                             ELSE Line("WRITE_ERROR", 0, <<>>)
          /\ log_lines' = Append(log_lines,
                                 IF opened THEN Line("SUCCESS", Len(references_list), <<>>)
                                 ELSE Line("ERROR_WRITE", 0, <<>>))
    /\ \E opened \in BOOLEAN : export_log' = WriteFile(export_log, log_lines', opened)
    /\ \E opened \in BOOLEAN : debug_log' = WriteFile(debug_log, debug_lines', opened)
    /\ pc' = "done"
    /\ UNCHANGED <<references_list, bibtex_file, bib_content, idx, ref_text, bib_entry,
                   entries, seen_dois, seen_titles>>
    /\ UNCHANGED ui

\* FinishWrite with the except branch of the write left empty: the success is
\* reported whether references.bib could be opened or not
FinishWriteHidesFailure ==
    /\ pc = "for"
    /\ idx = Len(references_list)
    /\ entries # <<>>
    /\ debug_lines' = debug_lines \o <<Line("DEBUG_END", 0, <<>>),
                                       Line("DEBUG_TOTAL", Len(entries), <<>>)>>
    /\ \E opened \in BOOLEAN : bib_out' = WriteFile(bib_out, BibText(entries), opened)
    /\ status_label' = Line("EXPORTED", Len(entries), <<>>)
    /\ log_lines' = Append(log_lines, Line("SUCCESS", Len(entries), <<>>))
    /\ \E opened \in BOOLEAN : export_log' = WriteFile(export_log, log_lines', opened)
    /\ \E opened \in BOOLEAN : debug_log' = WriteFile(debug_log, debug_lines', opened)
    /\ pc' = "done"
    /\ UNCHANGED <<references_list, bibtex_file, bib_content, idx, ref_text, bib_entry,
                   entries, seen_dois, seen_titles>>
    /\ UNCHANGED ui

\* after the loop, with entries: references.bib, status, log file and debug file
FinishWrite ==
    /\ pc = "for"
    /\ idx = Len(references_list)
    /\ entries # <<>>
    /\ debug_lines' = debug_lines \o <<Line("DEBUG_END", 0, <<>>),
                                       Line("DEBUG_TOTAL", Len(entries), <<>>)>>
    /\ \E opened \in BOOLEAN :
          /\ bib_out' = WriteFile(bib_out, BibText(entries), opened)
          /\ status_label' = IF opened THEN Line("EXPORTED", Len(entries), <<>>)
                             ELSE Line("WRITE_ERROR", 0, <<>>)
          /\ log_lines' = Append(log_lines, IF opened THEN Line("SUCCESS", Len(entries), <<>>)
                                            ELSE Line("ERROR_WRITE", 0, <<>>))
    /\ \E opened \in BOOLEAN : export_log' = WriteFile(export_log, log_lines', opened)
    /\ \E opened \in BOOLEAN : debug_log' = WriteFile(debug_log, debug_lines', opened)
    /\ pc' = "done"
    /\ UNCHANGED <<references_list, bibtex_file, bib_content, idx, ref_text, bib_entry,
                   entries, seen_dois, seen_titles>>
    /\ UNCHANGED ui

Next ==
    \/ ReadBibtex
    \/ ReadBibtexFails
    \/ MatchByDoi
    \/ MatchByTitle
    \/ ExportEntry
    \/ FinishNoEntries
    \/ FinishWrite

Spec == Init /\ [][Next]_vars

\* the bibliography files of the calls on TitleTexts: one that holds the title
\* "Ab", one that cannot be opened
TitleBibFiles == {f \in BibFiles : f.content = BibA \/ f.error = "FileNotFoundError"}

\* a call with a list of one citation taken from TitleTexts
InitTitle ==
    /\ pc = "call"
    /\ references_list \in {<<text>> : text \in TitleTexts}
    /\ bibtex_file \in TitleBibFiles
    /\ bib_content = <<>>
    /\ idx = 0
    /\ ref_text = <<>>
    /\ bib_entry = NoMatch
    /\ entries = <<>>
    /\ seen_dois = {}
    /\ seen_titles = {}
    /\ log_lines = <<>>
    /\ debug_lines = <<>>
    /\ status_label = Line("READY", 0, <<>>)
    /\ bib_out = Absent
    /\ export_log = Absent
    /\ debug_log = Absent
    /\ project_data = AllSelected
    /\ current_file = PathsOf(AllSelected)
    /\ analyze_button = TRUE
    /\ inputs = <<>>
    /\ md_content = <<>>
    /\ references_block = <<>>
    /\ references_editor = Line("EMPTY", 0, <<>>)
    /\ generate_button = FALSE
    /\ output_dir = TRUE
    /\ md_error_log = Absent
    /\ runs = 0
    /\ calls = <<>>

SpecTitle == InitTitle /\ [][Next]_vars

(* ------------------------------------------------------------------ *)
(* analyze_files and on_analysis_complete                              *)
(* ------------------------------------------------------------------ *)

\* the arguments and locals of export_all_references_to_bib
export_frame == <<references_list, bibtex_file, bib_content, idx, ref_text, bib_entry,
                  entries, seen_dois, seen_titles, log_lines, debug_lines>>

\* bibtex_file while no call is in progress
NoFile == [error |-> "none", content |-> <<>>]

\* a frame of export_all_references_to_bib is entered (or, with no arguments, left)
NewFrame(refs, file) ==
    /\ references_list' = refs
    /\ bibtex_file' = file
    /\ bib_content' = <<>>
    /\ idx' = 0
    /\ ref_text' = <<>>
    /\ bib_entry' = NoMatch
    /\ entries' = <<>>
    /\ seen_dois' = {}
    /\ seen_titles' = {}
    /\ log_lines' = <<>>
    /\ debug_lines' = <<>>

\* "\n".join(ref.strip() for ref in references_list)
EditorText(refs) == Join([i \in 1..Len(refs) |-> Strip(refs[i])], <<"\n">>)

\* what an export call that has returned leaves to compare it with another
CallRecord ==
    [run |-> runs, references_list |-> references_list, bibtex_file |-> bibtex_file,
     entries |-> entries, log_lines |-> log_lines, status |-> status_label.tag,
     bib_out |-> bib_out]

\* AnalyzeMissingInput with the inputs tested after the output directory is made
AnalyzeMissingInputAfterMkdir ==
    /\ pc = "idle"
    /\ inputs # <<>>
    /\ project_data # AllSelected
    /\ runs' = runs + 1
    /\ inputs' = Tail(inputs)
    /\ output_dir' = TRUE
    /\ status_label' = Line("MISSING_FILES", 0, <<>>)
    /\ UNCHANGED <<pc, export_frame, bib_out, export_log, debug_log, project_data,
                   current_file, analyze_button, md_content, references_block,
                   references_editor, generate_button, md_error_log, calls>>

\* analyze_files with one of the three inputs not selected: status, return
AnalyzeMissingInput ==
    /\ pc = "idle"
    /\ inputs # <<>>
    /\ project_data # AllSelected
    /\ runs' = runs + 1
    /\ inputs' = Tail(inputs)
    /\ status_label' = Line("MISSING_FILES", 0, <<>>)
    /\ UNCHANGED <<pc, export_frame, bib_out, export_log, debug_log, project_data, current_file, analyze_button,
                   md_content, references_block, references_editor, generate_button,
                   output_dir, md_error_log, calls>>

\* analyze_files when pandoc raises, or leaves no content.md: status, return
AnalyzeConversionFails ==
    /\ pc = "idle"
    /\ inputs # <<>>
    /\ project_data = AllSelected
    /\ Head(inputs).conversion \in {"failed", "no_output"}
    /\ runs' = runs + 1
    /\ inputs' = Tail(inputs)
    /\ output_dir' = TRUE
    /\ status_label' = IF Head(inputs).conversion = "failed"
                       THEN Line("PANDOC_FAILED", 0, <<>>)
                       ELSE Line("NO_MARKDOWN", 0, <<>>)
    /\ UNCHANGED <<pc, export_frame, bib_out, export_log, debug_log, project_data, current_file, analyze_button,
                   md_content, references_block, references_editor, generate_button,
                   md_error_log, calls>>

\* analyze_files when content.md cannot be read: status, markdown_read_error.log,
\* return
AnalyzeMarkdownUnreadable ==
    /\ pc = "idle"
    /\ inputs # <<>>
    /\ project_data = AllSelected
    /\ Head(inputs).conversion = "unreadable"
    /\ runs' = runs + 1
    /\ inputs' = Tail(inputs)
    /\ output_dir' = TRUE
    /\ status_label' = Line("MARKDOWN_FAILED", 0, <<>>)
    /\ \E opened \in BOOLEAN :
          md_error_log' = WriteFile(md_error_log, <<Line("ERROR_MARKDOWN", 0, <<>>)>>, opened)
    /\ UNCHANGED <<pc, export_frame, bib_out, export_log, debug_log, project_data, current_file, analyze_button,
                   md_content, references_block, references_editor, generate_button,
                   calls>>

\* analyze_files when the Markdown yields no citation: the export is not called,
\* the editor shows "No references section found.", the completion is scheduled
AnalyzeNoReferences ==
    /\ pc = "idle"
    /\ inputs # <<>>
    /\ project_data = AllSelected
    /\ Head(inputs).conversion = "ok"
    /\ \E block \in {extract_references_from_markdown(Head(inputs).md)} :
         \E refs \in {split_references(block)} :
            /\ refs = <<>>
            /\ references_block' = block
    /\ runs' = runs + 1
    /\ inputs' = Tail(inputs)
    /\ output_dir' = TRUE
    /\ md_content' = Head(inputs).md
    /\ references_editor' = Line("NO_REFERENCES", 0, <<>>)
    /\ status_label' = Line("CONVERTED", 0, <<>>)
    /\ pc' = "timer"
    /\ UNCHANGED <<export_frame, bib_out, export_log, debug_log, project_data, current_file, analyze_button,
                   generate_button, md_error_log, calls>>

\* analyze_files up to the call of export_all_references_to_bib with the citations
\* of the Markdown
AnalyzeCallsExport ==
    /\ pc = "idle"
    /\ inputs # <<>>
    /\ project_data = AllSelected
    /\ Head(inputs).conversion = "ok"
    /\ \E block \in {extract_references_from_markdown(Head(inputs).md)} :
         \E refs \in {split_references(block)} :
            /\ refs # <<>>
            /\ references_block' = block
            /\ references_editor' = Line("REFERENCES", Len(refs), EditorText(refs))
            /\ NewFrame(refs, Head(inputs).bibliography)
    /\ runs' = runs + 1
    /\ inputs' = Tail(inputs)
    /\ output_dir' = TRUE
    /\ md_content' = Head(inputs).md
    /\ status_label' = Line("CONVERTED", 0, <<>>)
    /\ pc' = "call"
    /\ UNCHANGED <<bib_out, export_log, debug_log, project_data, current_file, analyze_button, generate_button,
                   md_error_log, calls>>

\* analyze_files after export_all_references_to_bib has returned, however it
\* ended: the progress bar and QTimer.singleShot(1000, self.on_analysis_complete)
AnalysisScheduled ==
    /\ pc = "done"
    /\ calls' = Append(calls, CallRecord)
    /\ NewFrame(<<>>, NoFile)
    /\ pc' = "timer"
    /\ UNCHANGED <<status_label, bib_out, export_log, debug_log, project_data, current_file, analyze_button, inputs,
                   md_content, references_block, references_editor, generate_button,
                   output_dir, md_error_log, runs>>

\* on_analysis_complete
OnAnalysisComplete ==
    /\ pc = "timer"
    /\ generate_button' = TRUE
    /\ status_label' = Line("ANALYSIS_COMPLETE", 0, <<>>)
    /\ pc' = "idle"
    /\ UNCHANGED <<export_frame, bib_out, export_log, debug_log, project_data, current_file, analyze_button, inputs,
                   md_content, references_block, references_editor, output_dir,
                   md_error_log, runs, calls>>

NextAnalyze ==
    \/ AnalyzeMissingInput
    \/ AnalyzeConversionFails
    \/ AnalyzeMarkdownUnreadable
    \/ AnalyzeNoReferences
    \/ AnalyzeCallsExport
    \/ ReadBibtex
    \/ ReadBibtexFails
    \/ MatchByDoi
    \/ MatchByTitle
    \/ ExportEntry
    \/ FinishNoEntries
    \/ FinishWrite
    \/ AnalysisScheduled
    \/ OnAnalysisComplete

\* the window before the first analysis, with the analyses to come
IdleWindow(selected, script) ==
    /\ pc = "idle"
    /\ references_list = <<>>
    /\ bibtex_file = NoFile
    /\ bib_content = <<>>
    /\ idx = 0
    /\ ref_text = <<>>
    /\ bib_entry = NoMatch
    /\ entries = <<>>
    /\ seen_dois = {}
    /\ seen_titles = {}
    /\ log_lines = <<>>
    /\ debug_lines = <<>>
    /\ status_label = Line("READY", 0, <<>>)
    /\ bib_out = Absent
    /\ export_log = Absent
    /\ debug_log = Absent
    /\ project_data = selected
    /\ current_file = PathsOf(selected)
    /\ analyze_button = selected.is_ready
    /\ inputs = script
    /\ md_content = <<>>
    /\ references_block = <<>>
    /\ references_editor = Line("EMPTY", 0, <<>>)
    /\ generate_button = FALSE
    /\ output_dir = FALSE
    /\ md_error_log = Absent
    /\ runs = 0
    /\ calls = <<>>

\* a session of up to MaxRuns analyses on one output directory
InitRuns ==
    \E selected \in ProjectData :
       \E script \in (IF selected = AllSelected
                      THEN RunScripts \cup {<<i>> : i \in FailedConversions}
                      ELSE {<<RunInput("ok", DocOne, FileA)>>}) :
          IdleWindow(selected, script)

SpecRuns == InitRuns /\ [][NextAnalyze]_vars

\* one analysis of a generated Markdown text
InitParse ==
    \E selected \in {AllSelected, [AllSelected EXCEPT !.bibtex_file = FALSE, !.is_ready = FALSE]} :
       \E script \in (IF selected = AllSelected
                      THEN {<<i>> : i \in ParseInputs}
                      ELSE {<<RunInput("ok", DocOne, FileA)>>}) :
          IdleWindow(selected, script)

SpecParse == InitParse /\ [][NextAnalyze]_vars

\* references_list = self.split_references(references_block)
SplitReferences ==
    /\ pc = "split"
    /\ references_list' = split_references(references_block)
    /\ pc' = "split_done"
    /\ UNCHANGED <<bibtex_file, bib_content, idx, ref_text, bib_entry, entries, seen_dois,
                   seen_titles, log_lines, debug_lines, status_label, bib_out, export_log,
                   debug_log, ui>>

NextSplit == SplitReferences

\* a call of split_references on a generated block
InitSplit ==
    /\ pc = "split"
    /\ references_block \in SplitBlocks
    /\ references_list = <<>>
    /\ bibtex_file = NoFile
    /\ bib_content = <<>>
    /\ idx = 0
    /\ ref_text = <<>>
    /\ bib_entry = NoMatch
    /\ entries = <<>>
    /\ seen_dois = {}
    /\ seen_titles = {}
    /\ log_lines = <<>>
    /\ debug_lines = <<>>
    /\ status_label = Line("READY", 0, <<>>)
    /\ bib_out = Absent
    /\ export_log = Absent
    /\ debug_log = Absent
    /\ project_data = AllSelected
    /\ current_file = PathsOf(AllSelected)
    /\ analyze_button = TRUE
    /\ inputs = <<>>
    /\ md_content = <<>>
    /\ references_editor = Line("EMPTY", 0, <<>>)
    /\ generate_button = FALSE
    /\ output_dir = TRUE
    /\ md_error_log = Absent
    /\ runs = 0
    /\ calls = <<>>

SpecSplit == InitSplit /\ [][NextSplit]_vars

\* FileDropZone.set_file(file_path) of zone z, from a valid drop or a browse: the
\* zone keeps the path and emits file_selected(file_path), which runs the slot
SetFile ==
    /\ pc = "idle"
    /\ \E z \in Zones : \E file_path \in ZonePaths :
          /\ current_file' = [current_file EXCEPT ![z] = file_path]
          /\ OnFileSelected(z, file_path)
    /\ UNCHANGED <<pc, references_list, bibtex_file, bib_content, idx, ref_text, bib_entry,
                   entries, seen_dois, seen_titles, log_lines, debug_lines, bib_out,
                   export_log, debug_log, inputs, md_content, references_block,
                   references_editor, generate_button, output_dir, md_error_log, runs, calls>>

\* FileDropZone.clear_file() of zone z, from its clear button, which is visible
\* while the zone shows a path: the zone forgets the path and emits
\* file_selected(""), which runs the slot
ClearFile ==
    /\ pc = "idle"
    /\ \E z \in Zones :
          /\ current_file[z] # <<>>
          /\ current_file' = [current_file EXCEPT ![z] = <<>>]
          /\ OnFileSelected(z, <<>>)
    /\ UNCHANGED <<pc, references_list, bibtex_file, bib_content, idx, ref_text, bib_entry,
                   entries, seen_dois, seen_titles, log_lines, debug_lines, bib_out,
                   export_log, debug_log, inputs, md_content, references_block,
                   references_editor, generate_button, output_dir, md_error_log, runs, calls>>

NextZones == SetFile \/ ClearFile

\* the window after construction: no input selected, the analyze button disabled
NoneSelected ==
    [docx_file |-> FALSE, template_folder |-> FALSE, bibtex_file |-> FALSE, is_ready |-> FALSE]

InitZones == IdleWindow(NoneSelected, <<>>)

SpecZones == InitZones /\ [][NextZones]_vars

(* ------------------------------------------------------------------ *)
(* Reading the audit buffer                                            *)
(* ------------------------------------------------------------------ *)

\* the positions of log_lines that hold a line of the given template
LogIndex(tag) == {i \in DOMAIN log_lines : log_lines[i].tag = tag}

\* log_lines holds a line of the given template for citation k
HasLine(tag, k) == \E i \in LogIndex(tag) : log_lines[i].num = k

\* the values of the fields written name={value} in a text: the text between the
\* opening brace and the first closing brace
FieldValues(text, name) ==
    {SubSeq(text, a, RunEndNot(text, a, {"}"}) - 1) :
        a \in {a \in 1..Len(text) :
                  MatchAtCI(text, a - Len(name) - 2, name \o <<"=", "{">>)}}

(* ------------------------------------------------------------------ *)
(* C1                                                                  *)
(* ------------------------------------------------------------------ *)

\* C1: in one call no two citations are accepted by the DOI strategy with the same
\* DOI token, and no two by the title strategy with the same case-folded title; of
\* the citations that carry a DOI token some doi field of the bibliography holds,
\* the one of lowest ordinal is accepted by DOI and every later one is skipped as
\* a duplicate and exported under no key.
C1_OnePerIdentity ==
    /\ \A i, j \in LogIndex("OK_DOI") :
          i # j => log_lines[i].val # log_lines[j].val
    /\ \A i, j \in LogIndex("OK_TITLE") :
          i # j => Lower(log_lines[i].val) # Lower(log_lines[j].val)
    /\ \A i \in LogIndex("FOUND_DOI") :
          log_lines[i].val \in FieldValues(bib_content, DoiField) =>
             LET k == log_lines[i].num
                 same == {j \in LogIndex("FOUND_DOI") : log_lines[j].val = log_lines[i].val}
                 first == SetMin({log_lines[j].num : j \in same})
             IN  IF k = first
                 THEN HasLine("OK_DOI", k) /\ ~HasLine("SKIP_DOI", k)
                 ELSE /\ HasLine("SKIP_DOI", k)
                      /\ ~HasLine("OK_DOI", k)
                      /\ ~HasLine("OK_TITLE", k)
                      /\ ~HasLine("EXPORT", k)

\* three citations with one DOI that the bibliography holds have been processed
C1_Witness ==
    /\ pc = "done"
    /\ \E i \in LogIndex("OK_DOI") :
          /\ log_lines[i].val \in FieldValues(bib_content, DoiField)
          /\ Cardinality({j \in LogIndex("SKIP_DOI") : log_lines[j].val = log_lines[i].val}) >= 2

(* ------------------------------------------------------------------ *)
(* C2                                                                  *)
(* ------------------------------------------------------------------ *)

\* the first position of character c in text, Len(text) + 1 when it has none
FirstOf(text, c) == RunEndNot(text, 1, {c})

\* an exported entry without its opener and key: the block it was copied from
AfterKey(entry) == SubSeq(entry, FirstOf(entry, ",") + 1, Len(entry))

\* C2: in one call no entry block of the bibliography source is written to
\* references.bib more than once, under two keys.
C2_NoEntryTwice ==
    bib_out.exists =>
        \A i, j \in DOMAIN entries : i # j => AfterKey(entries[i]) # AfterKey(entries[j])

(* ------------------------------------------------------------------ *)
(* C3                                                                  *)
(* ------------------------------------------------------------------ *)

IsAccept(line) == line.tag \in {"OK_DOI", "OK_TITLE"}

\* the acceptances, in the order they were logged
AcceptLines == SelectSeq(log_lines, IsAccept)

\* the key of an entry: the text between its opening brace and its first comma
KeyOf(entry) == SubSeq(entry, FirstOf(entry, "{") + 1, FirstOf(entry, ",") - 1)

\* "ref" and k zero-padded to 3 digits
PaddedKey(k) ==
    <<"r", "e", "f">>
      \o (IF k < 10 THEN <<"0", "0">> ELSE IF k < 100 THEN <<"0">> ELSE <<>>)
      \o Decimal(k)

DoiTags == {"FOUND_DOI", "SKIP_DOI", "OK_DOI", "FAIL_DOI"}

TitleTags == {"FOUND_TITLE", "NO_TITLE", "SKIP_TITLE", "OK_TITLE", "FAIL_TITLE"}

\* the title occurs (in any case) in a field written title={...}, on the line of the
\* field name and before any brace nested in the value
TitleOnFieldLine(bib, title) ==
    \E a \in 1..Len(bib) :
       /\ MatchAtCI(bib, a - Len(TitleField) - 2, TitleField \o <<"=", "{">>)
       /\ \E t \in a..Len(bib) :
             /\ MatchAtCI(bib, t, title)
             /\ t + Len(title) <= RunEndNot(bib, a, {"{", "}", "\n"})

\* the title strategy is evaluated for a citation only after the DOI strategy, and
\* only when the DOI strategy neither accepted it nor skipped it
TitleOnlyAfterDoi ==
    \A i \in DOMAIN log_lines :
       log_lines[i].tag \in TitleTags =>
          /\ ~HasLine("OK_DOI", log_lines[i].num)
          /\ ~HasLine("SKIP_DOI", log_lines[i].num)
          /\ \A j \in DOMAIN log_lines :
                (log_lines[j].tag \in DoiTags /\ log_lines[j].num = log_lines[i].num) => j < i

\* an earlier citation was accepted by the title strategy with the same case-folded title
TitleExportedBefore(k, title) ==
    \E j \in LogIndex("OK_TITLE") :
       log_lines[j].num < k /\ Lower(log_lines[j].val) = Lower(title)

NextDoiSeen ==
    /\ pc = "for"
    /\ idx < Len(references_list)
    /\ DoiSearch(references_list[idx + 1]).found
    /\ DoiSearch(references_list[idx + 1]).group \in seen_dois

\* the title strategy is about to run on a citation whose case-folded title is in
\* the exported-title set
TitleSeen ==
    /\ pc = "title"
    /\ TitleOf(TitleSearch(ref_text)).found
    /\ Lower(TitleOf(TitleSearch(ref_text)).group) \in seen_titles

\* the step ended the iteration of citation k as a duplicate: a SKIP line for k is
\* the last of the log, no entry is added and both dedup sets are as they were
SkippedAsDuplicate(tag, k) ==
    /\ pc' = "for"
    /\ idx' = k
    /\ log_lines'[Len(log_lines')].tag = tag
    /\ log_lines'[Len(log_lines')].num = k
    /\ ~bib_entry'.found
    /\ UNCHANGED <<entries, seen_dois, seen_titles>>

\* C5 as stated: a citation whose DOI token is in the exported-DOI set, or whose
\* extracted title (case-folded) is in the exported-title set, is never accepted by
\* any strategy.
C5_Original ==
    \A k \in 1..Len(references_list) :
       (\/ \E j \in LogIndex("OK_DOI") :
              /\ log_lines[j].num < k
              /\ DoiSearch(references_list[k]).found
              /\ log_lines[j].val = DoiSearch(references_list[k]).group
        \/ /\ TitleOf(TitleSearch(references_list[k])).found
           /\ TitleExportedBefore(k, TitleOf(TitleSearch(references_list[k])).group))
       => ~HasLine("OK_DOI", k) /\ ~HasLine("OK_TITLE", k)

\* C5, amended: a citation whose DOI token is in the exported-DOI set, or which
\* reaches the title strategy (the DOI strategy did not accept it) with an extracted
\* title whose case-folded form is in the exported-title set, is skipped as a
\* duplicate: its iteration ends there, it is accepted by no strategy, no entry is
\* added and both dedup sets stay as they were; a duplicate DOI never reaches the
\* title strategy.
C5_DuplicateSkipped ==
    [][/\ NextDoiSeen => SkippedAsDuplicate("SKIP_DOI", idx + 1)
       /\ TitleSeen => SkippedAsDuplicate("SKIP_TITLE", idx)]_vars

\* a citation whose DOI was searched and not found has been skipped for its title,
\* and the call went on to its end
C5_Witness ==
    /\ pc = "done"
    /\ \E k \in 1..Len(references_list) :
          /\ HasLine("FAIL_DOI", k)
          /\ HasLine("SKIP_TITLE", k)

(* ------------------------------------------------------------------ *)
(* C6                                                                  *)
(* ------------------------------------------------------------------ *)

SkipLines == LogIndex("SKIP_DOI") \cup LogIndex("SKIP_TITLE")

\* the ordinal of the citation in process when line i was appended
OrdinalAt(i) ==
    log_lines[SetMax({p \in LogIndex("PROCESSING") : p < i})].num

\* the ordinals a line names: the integer its template interpolates
OrdinalsNamed(line) == {line.num}

\* the acceptances a skip line repeats: the earlier OK lines of its strategy with the
\* DOI token (the case-folded title) the skip line names
Repeated(i) ==
    {j \in 1..(i - 1) :
        \/ /\ log_lines[i].tag = "SKIP_DOI"
           /\ log_lines[j].tag = "OK_DOI"
           /\ log_lines[j].val = log_lines[i].val
        \/ /\ log_lines[i].tag = "SKIP_TITLE"
           /\ log_lines[j].tag = "OK_TITLE"
           /\ Lower(log_lines[j].val) = Lower(log_lines[i].val)}

\* C6 as stated: the record of a skip names the ordinal of the current citation and
\* the ordinal of the earlier citation whose acceptance it repeats.
C6_Original ==
    \A i \in SkipLines :
       /\ OrdinalAt(i) \in OrdinalsNamed(log_lines[i])
       /\ \E j \in Repeated(i) : log_lines[j].num \in OrdinalsNamed(log_lines[i])

\* C6, amended: the record of a skip names the ordinal of the current citation and
\* no other, and the DOI token (or title) that an earlier citation of lower ordinal
\* was accepted with; the ordinal of that earlier citation is not in the record.
C6_SkipNamesCurrent ==
    \A i \in SkipLines :
       /\ OrdinalsNamed(log_lines[i]) = {OrdinalAt(i)}
       /\ Repeated(i) # {}
       /\ \A j \in Repeated(i) :
             /\ log_lines[j].num < OrdinalAt(i)
             /\ log_lines[j].num \notin OrdinalsNamed(log_lines[i])

\* the third citation has been skipped as a repeat of the first
C6_Witness ==
    \E i \in SkipLines :
       /\ OrdinalAt(i) = 3
       /\ \E j \in Repeated(i) : log_lines[j].num = 1

(* ------------------------------------------------------------------ *)
(* C7                                                                  *)
(* ------------------------------------------------------------------ *)

\* C7: the entry the DOI strategy accepts has a doi field whose value is exactly the
\* DOI token of the citation.
C7_DoiExact ==
    (/\ pc = "export"
     /\ bib_entry.found
     /\ log_lines[Len(log_lines)].tag = "OK_DOI")
    => \E v \in FieldValues(bib_entry.group, DoiField) :
          Lower(v) = Lower(log_lines[Len(log_lines)].val)

(* ------------------------------------------------------------------ *)
(* C8                                                                  *)
(* ------------------------------------------------------------------ *)

SmithClaimedTitle == <<"S", "m", "i", "t", "h", " ", "J", "A", ",", " ", "e", "t", " ", "a", "l",
                       ".", " ", "A", " ", "S", "t", "u", "d", "y", " ", "o", "f", " ", "X">>

SmithTitle == <<"A", " ", "S", "t", "u", "d", "y", " ", "o", "f", " ", "X">>

\* the stretches b..e of a text the structural pattern allows as a title: after a
\* ". " and at most one mark, made of title characters only (so of no period), and
\* followed by at most one mark, then ". " and four digits
TitleStretches(text) ==
    {be \in (1..Len(text)) \X (1..Len(text)) :
        /\ be[1] <= be[2]
        /\ \/ MatchAt(text, be[1] - 2, <<".", " ">>)
           \/ MatchAt(text, be[1] - 3, <<".", " ">>) /\ text[be[1] - 1] \in TitleQuoteSet
        /\ \A i \in be[1]..be[2] : text[i] \in TitleRunSet
        /\ TitleTailAt(text, be[2] + 1)}

\* C8 as stated: the title extracted from ". Smith JA, et al. A Study of X. 2023" is
\* "Smith JA, et al. A Study of X"; in general it is the whole run between the first
\* "period, space" and the "period, space, four-digit year" that ends it.
C8_Original ==
    \A i \in LogIndex("FOUND_TITLE") :
       LET text == references_list[log_lines[i].num]
       IN  /\ text = SmithText => log_lines[i].val = SmithClaimedTitle
           /\ log_lines[i].val = TitleOf(TitleSearchWholeRun(text)).group

\* C8, amended: the title extracted from ". Smith JA, et al. A Study of X. 2023" is
\* "A Study of X"; in general the extracted title holds no period: it is, stripped of
\* surrounding whitespace, a run of title characters that follows a "period, space"
\* (and at most one * or " mark) and is followed by at most one mark and "period,
\* space, four digits", starting at the leftmost place of the text where such a run
\* exists; a text with no such run has no title.
C8_TitleIsPeriodFreeRun ==
    /\ \A i \in LogIndex("FOUND_TITLE") :
          LET text == references_list[log_lines[i].num]
              title == log_lines[i].val
          IN  /\ text = SmithText => title = SmithTitle
              /\ \A j \in DOMAIN title : title[j] # "."
              /\ \E be \in TitleStretches(text) :
                    /\ title = Strip(SubSeq(text, be[1], be[2]))
                    /\ \A other \in TitleStretches(text) : be[1] <= other[1] + 1
    /\ \A i \in LogIndex("NO_TITLE") :
          TitleStretches(references_list[log_lines[i].num]) = {}

\* the title of the example citation has been extracted
C8_Witness ==
    /\ references_list = <<SmithText>>
    /\ \E i \in LogIndex("FOUND_TITLE") : log_lines[i].val = SmithTitle

(* ------------------------------------------------------------------ *)
(* C9                                                                  *)
(* ------------------------------------------------------------------ *)

IsProcessing(line) == line.tag = "PROCESSING"

\* the citations taken by the loop, in the order it took them
ProcessingLines == SelectSeq(log_lines, IsProcessing)

\* C9: once the bibliography is read, the loop takes the citations one by one in
\* increasing ordinal order, each once, and the call ends only after the last one:
\* no unmatched or duplicate citation ends it earlier.
C9_EveryCitationOnce ==
    /\ Len(ProcessingLines) = idx
    /\ \A k \in 1..Len(ProcessingLines) :
          /\ ProcessingLines[k].num = k
          /\ ProcessingLines[k].val = references_list[k]
    /\ (pc = "done" /\ bibtex_file.error = "none") => idx = Len(references_list)

\* the call is over; the first citation was accepted, the second skipped as a
\* duplicate and the third exported
C9_Witness ==
    /\ pc = "done"
    /\ HasLine("EXPORT", 1)
    /\ HasLine("SKIP_DOI", 2) \/ HasLine("SKIP_TITLE", 2)
    /\ HasLine("EXPORT", 3)

(* ------------------------------------------------------------------ *)
(* C10                                                                 *)
(* ------------------------------------------------------------------ *)

\* where the i-th entry starts in references.bib: after the provenance line, the
\* entries before it and a blank line after each of them
RECURSIVE EntryStart(_)
EntryStart(i) ==
    IF i = 1 THEN Len(Provenance) + 1
    ELSE EntryStart(i - 1) + Len(entries[i - 1]) + 2

\* a text is the provenance line, then the accepted entries in order, a blank line
\* between two of them, and a line break at the end
IsExportFile(text) ==
    /\ SubSeq(text, 1, Len(Provenance)) = Provenance
    /\ \A i \in DOMAIN entries :
          /\ SubSeq(text, EntryStart(i), EntryStart(i) + Len(entries[i]) - 1) = entries[i]
          /\ i < Len(entries) =>
                SubSeq(text, EntryStart(i) + Len(entries[i]), EntryStart(i + 1) - 1)
                   = <<"\n", "\n">>
    /\ Len(text) = EntryStart(Len(entries)) + Len(entries[Len(entries)])
    /\ text[Len(text)] = "\n"

\* C10: a call that accepted entries and could open references.bib leaves in it the
\* provenance line followed by exactly the accepted, rekeyed entries, in strictly
\* increasing ordinal order and separated by blank lines; a call that accepted no
\* entry leaves references.bib unwritten.
C10_ExportFile ==
    /\ (pc = "done" /\ status_label.tag = "EXPORTED") =>
          /\ bib_out.exists
          /\ Len(entries) = Len(AcceptLines)
          /\ Len(entries) >= 1
          /\ IsExportFile(bib_out.content)
          /\ \A i \in DOMAIN entries : KeyOf(entries[i]) = PaddedKey(AcceptLines[i].num)
          /\ \A i \in 1..(Len(entries) - 1) : AcceptLines[i].num < AcceptLines[i + 1].num
    /\ bib_out.exists => (pc = "done" /\ status_label.tag = "EXPORTED")
    /\ (pc = "done" /\ entries = <<>>) => ~bib_out.exists

\* references.bib holds three entries
C10_Witness ==
    /\ pc = "done"
    /\ bib_out.exists
    /\ Len(entries) = 3

(* ------------------------------------------------------------------ *)
(* Sessions of several analyses                                        *)
(* ------------------------------------------------------------------ *)

\* the export calls of the most recent analysis that have returned
LastCalls == {i \in DOMAIN calls : calls[i].run = runs}

\* the most recent analysis has run to the scheduling of its completion
RunIsOver == pc = "timer"

(* ------------------------------------------------------------------ *)
(* C11                                                                 *)
(* ------------------------------------------------------------------ *)

\* C11: when the most recent analysis on an output directory has ended and has
\* accepted no entry, references.bib is absent from the directory, whatever an
\* earlier analysis left there.
C11_AbsentAfterZeroAcceptance ==
    (RunIsOver /\ \A i \in LastCalls : calls[i].entries = <<>>) => ~bib_out.exists

(* ------------------------------------------------------------------ *)
(* C12                                                                 *)
(* ------------------------------------------------------------------ *)

\* the events of the most recent analysis: the audit buffer of its export call,
\* nothing when it made none
ThisRunEvents ==
    IF LastCalls = {} THEN <<>> ELSE calls[CHOOSE i \in LastCalls : TRUE].log_lines

\* the statement as the specification words it: once an analysis has ended,
\* references_export.log holds the events of that analysis and no others, also
\* when the analysis found no citations
C12_Original == RunIsOver => export_log.content = ThisRunEvents

\* C12: references_export.log is written only where a call of
\* export_all_references_to_bib returns, and there it is either replaced as a
\* whole by the audit buffer of that call or (its open having failed) left as it
\* was; every other step of an analysis, and so an analysis that finds no
\* citations, leaves the log of an earlier analysis untouched.  The log never mixes
\* the lines of two calls.
C12_LogRewrittenByCall ==
    /\ [](export_log.exists =>
             \/ pc = "done" /\ export_log.content = log_lines
             \/ \E i \in DOMAIN calls : export_log.content = calls[i].log_lines)
    /\ [][IF pc # "done" /\ pc' = "done"
          THEN \/ export_log' = [exists |-> TRUE, content |-> log_lines']
               \/ export_log' = export_log
          ELSE export_log' = export_log]_vars

\* a second call has replaced the log an earlier call wrote with its own, different
\* events
C12_Witness ==
    /\ pc = "done"
    /\ Len(calls) = 1
    /\ calls[1].log_lines # log_lines
    /\ Len(calls[1].log_lines) > Len(log_lines)
    /\ export_log = [exists |-> TRUE, content |-> log_lines]

(* ------------------------------------------------------------------ *)
(* C13                                                                 *)
(* ------------------------------------------------------------------ *)

\* the citations of the call that were matched, skipped as duplicates, left
\* unmatched: one line of the audit buffer each
Matched == Cardinality(LogIndex("EXPORT"))

Skipped == Cardinality(SkipLines)

Unmatched == Cardinality(LogIndex("ERROR_NO_MATCH"))

\* the counts a closing line reports: only the success templates interpolate a
\* number, and they interpolate one
ReportedCounts(line) ==
    IF line.tag \in {"SUCCESS", "EXPORTED"} THEN <<line.num>> ELSE <<>>

\* the last line of the audit buffer
LastLine == log_lines[Len(log_lines)]

\* the statement as the specification words it: the closing line of the log and
\* the status line report the counts of matched, skipped and unmatched citations
C13_Original ==
    (pc = "done" /\ bibtex_file.error = "none") =>
        /\ ReportedCounts(LastLine) = <<Matched, Skipped, Unmatched>>
        /\ ReportedCounts(status_label) = <<Matched, Skipped, Unmatched>>
        /\ Matched + Skipped + Unmatched = Len(references_list)

\* C13: a call that read the bibliography ends with one closing line in the audit
\* buffer and one status line, and the only count they report is the number of
\* entries accepted, and only when references.bib was written; with no entry
\* accepted, or a failed write, they report no count.  The matched, skipped and
\* unmatched citations are not counted anywhere but can be counted from the
\* per-citation lines, where they sum to the number of citations.
C13_ClosingLineCountsAccepted ==
    (pc = "done" /\ bibtex_file.error = "none") =>
        /\ Matched + Skipped + Unmatched = Len(references_list)
        /\ Matched = Len(entries)
        /\ IF Matched = 0
           THEN /\ LastLine = Line("ERROR_NONE_EXPORTED", 0, <<>>)
                /\ status_label = Line("NONE_EXPORTED", 0, <<>>)
           ELSE \/ /\ LastLine = Line("SUCCESS", Matched, <<>>)
                   /\ status_label = Line("EXPORTED", Matched, <<>>)
                \/ /\ LastLine = Line("ERROR_WRITE", 0, <<>>)
                   /\ status_label = Line("WRITE_ERROR", 0, <<>>)
        /\ \A i \in DOMAIN log_lines : i < Len(log_lines) => ReportedCounts(log_lines[i]) = <<>>

\* a call with one matched, one skipped and one unmatched citation has reported
\* its one accepted entry
C13_Witness ==
    /\ pc = "done"
    /\ status_label = Line("EXPORTED", 1, <<>>)
    /\ Matched = 1
    /\ Skipped = 1
    /\ Unmatched = 1

(* ------------------------------------------------------------------ *)
(* C14                                                                 *)
(* ------------------------------------------------------------------ *)

\* the statement as the specification words it: references_debug.log is written
\* only by a call that accepted no entry
C14_Original == debug_log.exists => entries = <<>>

\* C14: references_debug.log is written only at the end of a call that read the
\* bibliography and went through the whole list, whether the call accepted entries
\* or not, and it then holds the whole debug buffer of the call; a call that could
\* not read the bibliography does not write it.
C14_DumpAfterEveryLoop ==
    debug_log.exists =>
        /\ pc = "done"
        /\ bibtex_file.error = "none"
        /\ idx = Len(references_list)
        /\ debug_log.content = debug_lines
        /\ debug_lines[Len(debug_lines)] = Line("DEBUG_TOTAL", Len(entries), <<>>)

\* a call that accepted two entries has written references.bib and
\* references_debug.log
C14_Witness ==
    /\ pc = "done"
    /\ Len(entries) = 2
    /\ bib_out.exists
    /\ debug_log.exists

(* ------------------------------------------------------------------ *)
(* C15                                                                 *)
(* ------------------------------------------------------------------ *)

\* the text holds the path of the bibliography source
NamesPath(text) ==
    \E i \in 1..(Len(text) - Len(bibtex_path) + 1) :
       SubSeq(text, i, i + Len(bibtex_path) - 1) = bibtex_path

\* what a call that could not read the bibliography leaves, but for the wording
\* of its report: no citation taken, nothing accepted, neither references.bib nor
\* references_debug.log, and the one-line audit log if that could be opened
ReadFailureLeavesNothing ==
    /\ status_label.tag = "READ_ERROR"
    /\ log_lines = <<Line("ERROR_READ", 0, status_label.val)>>
    /\ idx = 0
    /\ ProcessingLines = <<>>
    /\ entries = <<>>
    /\ ~bib_out.exists
    /\ ~debug_log.exists
    /\ export_log.exists => export_log.content = log_lines

\* the statement as the specification words it: the report names the attempted
\* path, whatever made the read fail
C15_Original ==
    (pc = "done" /\ bibtex_file.error # "none") =>
        /\ ReadFailureLeavesNothing
        /\ NamesPath(status_label.val)

\* C15: a call that cannot read the bibliography source reports the read failure
\* with the text of the exception, in the status line and in the audit log; that
\* text names the attempted path when the file could not be opened and does not
\* when its bytes could not be decoded.  The call takes no citation, accepts
\* nothing and writes neither references.bib nor references_debug.log.
C15_ReadFailureReported ==
    (pc = "done" /\ bibtex_file.error # "none") =>
        /\ ReadFailureLeavesNothing
        /\ NamesPath(status_label.val) <=> bibtex_file.error = "FileNotFoundError"

\* a call on a list of three citations could not open the bibliography and has
\* written the audit log
C15_Witness ==
    /\ pc = "done"
    /\ bibtex_file.error = "FileNotFoundError"
    /\ Len(references_list) = 3
    /\ export_log.exists

(* ------------------------------------------------------------------ *)
(* C16                                                                 *)
(* ------------------------------------------------------------------ *)

\* C16: an analysis whose export call could not read the bibliography source is
\* aborted: its completion is not scheduled and the failure status is not replaced
\* by the status of a completed analysis.
C16_ReadFailureAborts ==
    \A i \in LastCalls :
       calls[i].status = "READ_ERROR" =>
          /\ pc # "timer"
          /\ status_label.tag # "ANALYSIS_COMPLETE"

(* ------------------------------------------------------------------ *)
(* C17                                                                 *)
(* ------------------------------------------------------------------ *)

\* the call has returned with entries accepted and references.bib not written:
\* the open of references.bib failed
WriteFailed == pc = "done" /\ entries # <<>> /\ ~bib_out.exists

\* the lines that close the processing of one citation
OutcomeTags == {"EXPORT", "SKIP_DOI", "SKIP_TITLE", "ERROR_NO_MATCH"}

\* the text holds one outcome line for every citation of the list
HoldsEveryOutcome(text) ==
    \A k \in 1..Len(references_list) :
       \E i \in DOMAIN text : text[i].tag \in OutcomeTags /\ text[i].num = k

\* the failure is the status and the closing line of the audit buffer, behind the
\* outcome of every citation, and the accepted entries are still held
WriteFailureReported ==
    /\ status_label.tag = "WRITE_ERROR"
    /\ LastLine.tag = "ERROR_WRITE"
    /\ HoldsEveryOutcome(log_lines)
    /\ Len(entries) = Matched

\* the statement as the specification words it: the audit log is written all the
\* same, with every outcome
C17_Original ==
    WriteFailed =>
        /\ WriteFailureReported
        /\ export_log.exists
        /\ export_log.content = log_lines

\* C17: when references.bib cannot be opened for writing the call still returns,
\* with the failure as its status and as the closing line of the audit buffer,
\* which holds the outcome of every citation; references_export.log holds that
\* whole buffer if it could be opened itself, and is left unwritten, without any
\* report, if it could not.
C17_WriteFailureReported ==
    WriteFailed =>
        /\ WriteFailureReported
        /\ export_log.exists => export_log.content = log_lines

\* a call with a matched, a skipped and an unmatched citation could not open
\* references.bib and has written the audit log
C17_Witness ==
    /\ WriteFailed
    /\ export_log.exists
    /\ Matched = 1
    /\ Skipped = 1
    /\ Unmatched = 1

(* ------------------------------------------------------------------ *)
(* C18                                                                 *)
(* ------------------------------------------------------------------ *)

\* two calls that were given the same citation list and the same bibliography
SameInputs(i, j) ==
    /\ calls[i].references_list = calls[j].references_list
    /\ calls[i].bibtex_file = calls[j].bibtex_file

\* C18: two calls of export_all_references_to_bib on one window and one output
\* directory that are given the same citation list and the same bibliography
\* accept the same entries under the same keys, whatever calls came before or
\* between them, and each of them that writes references.bib writes the same text.
C18_Idempotent ==
    \A i, j \in DOMAIN calls :
       SameInputs(i, j) =>
          /\ calls[i].entries = calls[j].entries
          /\ \A k \in {i, j} :
                calls[k].status = "EXPORTED" =>
                   calls[k].bib_out = [exists |-> TRUE, content |-> BibText(calls[i].entries)]

\* the second of two calls with the same inputs has written references.bib a
\* second time
C18_Witness ==
    /\ Len(calls) = 2
    /\ SameInputs(1, 2)
    /\ calls[1].status = "EXPORTED"
    /\ calls[2].status = "EXPORTED"
    /\ calls[1].entries # <<>>

(* ------------------------------------------------------------------ *)
(* C19                                                                 *)
(* ------------------------------------------------------------------ *)

\* the positions where a line of the text starts
LineStarts(text) == {p \in 1..Len(text) : p = 1 \/ text[p - 1] = "\n"}

\* the line that starts at position p, without its line break
LineAt(text, p) == SubSeq(text, p, RunEndNot(text, p, {"\n"}) - 1)

\* a line that reads "##", one or more blanks, References or Bibliography in any
\* case, and nothing but white space after it
IsReferencesHeading(line) ==
    /\ Len(line) >= 4
    /\ line[1] = "#"
    /\ line[2] = "#"
    /\ line[3] = " "
    /\ \E a \in 4..Len(line) :
          /\ \A i \in 3..(a - 1) : line[i] = " "
          /\ \E h \in HeadingWords :
                /\ a + Len(h) - 1 <= Len(line)
                /\ Lower(SubSeq(line, a, a + Len(h) - 1)) = h
                /\ \A i \in (a + Len(h))..Len(line) : line[i] \in SpaceSet

\* a line that reads "## " and some text: a level-2 heading
IsLevel2Heading(line) ==
    /\ Len(line) >= 4
    /\ SubSeq(line, 1, 3) = <<"#", "#", " ">>

\* the section under the first references heading: from the end of that line to
\* the start of the next level-2 heading line or to the end of the text, without
\* the white space around it; nothing when the text has no references heading
ReferencesSection(text) ==
    LET heads == {p \in LineStarts(text) : IsReferencesHeading(LineAt(text, p))}
    IN  IF heads = {} THEN <<>>
        ELSE LET h == SetMin(heads)
                 nexts == {q \in LineStarts(text) : q > h /\ IsLevel2Heading(LineAt(text, q))}
                 stop == IF nexts = {} THEN Len(text) + 1 ELSE SetMin(nexts)
             IN  Strip(SubSeq(text, h + Len(LineAt(text, h)), stop - 1))

\* C19: the block extract_references_from_markdown returns is empty when no line
\* of the Markdown is a level-2 heading reading References or Bibliography (any
\* case, trailing white space allowed); otherwise it is the text from the end of
\* the first such line to the start of the next level-2 heading line, or to the end
\* of the document, returned without the white space around it, and so it holds
\* no line of a later section.
C19_BlockIsReferencesSection ==
    /\ references_block = ReferencesSection(md_content)
    /\ \A p \in LineStarts(references_block) : ~IsLevel2Heading(LineAt(references_block, p))

\* the block was cut out of a text that has a heading before the references
\* heading, a level-3 heading inside the section and a level-2 heading after it
C19_Witness ==
    /\ references_block # <<>>
    /\ ~IsReferencesHeading(LineAt(md_content, 1))
    /\ \E p \in LineStarts(references_block) :
          LineAt(references_block, p) = <<"#", "#", "#", " ", "S", "u", "b">>
    /\ \E q \in LineStarts(md_content) :
          /\ q > Len(references_block)
          /\ LineAt(md_content, q) = <<"#", "#", " ", "N", "e", "x", "t">>

(* ------------------------------------------------------------------ *)
(* C20                                                                 *)
(* ------------------------------------------------------------------ *)

IsNumeral(s) == Len(s) >= 1 /\ \A i \in DOMAIN s : s[i] \in DigitSet

\* a marker of style N., N\., N) or [N]
IsMarker(m) ==
    \/ \E n \in 1..(Len(m) - 1) :
          /\ IsNumeral(SubSeq(m, 1, n))
          /\ SubSeq(m, n + 1, Len(m)) \in {<<".">>, <<"\\", ".">>, <<")">>}
    \/ /\ Len(m) >= 3
       /\ m[1] = "["
       /\ m[Len(m)] = "]"
       /\ IsNumeral(SubSeq(m, 2, Len(m) - 1))

\* the first word of a line, and what follows it, without the white space around
FirstWord(line) ==
    SubSeq(Strip(line), 1, RunEndNot(Strip(line), 1, SpaceSet) - 1)

AfterFirstWord(line) ==
    Strip(SubSeq(Strip(line), Len(FirstWord(line)) + 1, Len(Strip(line))))

\* a line that holds one citation: a marker, white space, the text of the citation
IsCitationLine(line) == IsMarker(FirstWord(line)) /\ AfterFirstWord(line) # <<>>

\* the lines of a block that are not blank, by their start positions
CitationStarts(block) == {p \in LineStarts(block) : Strip(LineAt(block, p)) # <<>>}

\* the block is made of citations that each start on a line of their own
OneCitationPerLine(block) ==
    /\ CitationStarts(block) # {}
    /\ \A p \in CitationStarts(block) : IsCitationLine(LineAt(block, p))

\* the citations of such a block in the order of their lines, each as its marker,
\* one blank and its text
CitationsInOrder(block) ==
    [k \in 1..Cardinality(CitationStarts(block)) |->
        LET p == CHOOSE p \in CitationStarts(block) :
                    Cardinality({q \in CitationStarts(block) : q <= p}) = k
        IN  FirstWord(LineAt(block, p)) \o <<" ">> \o AfterFirstWord(LineAt(block, p))]

\* C20: when every citation of the references block starts on a line of its own
\* with a marker of style N., N\., [N] or N) followed by its text, split_references
\* returns one citation per marker, in the order of the lines: the citation at
\* position k of the list handed to the export (and shown in the editor) is that
\* of the k-th marker, whatever numerals the markers print and whatever styles
\* they mix; such a block is never taken for one without references.
C20_OneCitationPerMarker ==
    /\ pc = "call" =>
          (OneCitationPerLine(references_block) =>
              /\ references_list = CitationsInOrder(references_block)
              /\ references_editor.num = Cardinality(CitationStarts(references_block))
              /\ references_editor.val = Join(CitationsInOrder(references_block), <<"\n">>))
    /\ references_editor.tag = "NO_REFERENCES" => ~OneCitationPerLine(references_block)

\* four citations with the markers 3), [7], 1\. and 1. in this order have been
\* split
C20_Witness ==
    /\ pc = "call"
    /\ OneCitationPerLine(references_block)
    /\ Len(references_list) = 4
    /\ references_list[1][1] = "3"
    /\ references_list[2][1] = "["
    /\ references_list[3][2] = "\\"
    /\ SubSeq(references_list[4], 1, 2) = <<"1", ".">>

(* ------------------------------------------------------------------ *)
(* C21                                                                 *)
(* ------------------------------------------------------------------ *)

\* the positions where a word of the text starts, and the word that starts there
WordStarts(text) ==
    {p \in 1..Len(text) : text[p] \notin SpaceSet /\ (p = 1 \/ text[p - 1] \in SpaceSet)}

WordAt(text, p) == SubSeq(text, p, RunEndNot(text, p, SpaceSet) - 1)

\* the words of the text that are markers
MarkerStarts(text) == {p \in WordStarts(text) : IsMarker(WordAt(text, p))}

\* the k-th smallest element of a set of positions
Nth(positions, k) ==
    CHOOSE p \in positions : Cardinality({q \in positions : q <= p}) = k

\* a block on one line that starts with a marker and in which every marker is
\* followed by the text of its citation
OneLineOfCitations(block) ==
    /\ \A i \in DOMAIN block : block[i] # "\n"
    /\ 1 \in MarkerStarts(block)
    /\ \A m \in MarkerStarts(block) :
          \E w \in WordStarts(block) \ MarkerStarts(block) :
             /\ w > m
             /\ \A v \in WordStarts(block) : ~(m < v /\ v < w)

\* C21: for a block whose citations are all on one line, split_references returns
\* one citation per marker, in order: the k-th citation starts with the k-th marker
\* of the line.
C21_OneLineSplit ==
    (pc = "split_done" /\ OneLineOfCitations(references_block)) =>
        /\ Len(references_list) = Cardinality(MarkerStarts(references_block))
        /\ \A k \in DOMAIN references_list :
              LET m == WordAt(references_block, Nth(MarkerStarts(references_block), k))
              IN  SubSeq(references_list[k], 1, Len(m)) = m

(* ------------------------------------------------------------------ *)
(* C22                                                                 *)
(* ------------------------------------------------------------------ *)

\* the word at p is the first of its line
FirstOfLine(block, p) ==
    \A i \in 1..(p - 1) : (\A j \in i..(p - 1) : block[j] # "\n") => block[i] \in SpaceSet

\* the markers that can be recognized: the first word of a line, with white space
\* after it
MarkersAtLineStart(block) ==
    {p \in MarkerStarts(block) :
        FirstOfLine(block, p) /\ p + Len(WordAt(block, p)) <= Len(block)}

\* an analysis has split the references block of its Markdown
HasSplit == references_editor.tag # "EMPTY" /\ pc \in {"call", "timer", "idle"}

\* C22: when no marker is recognized in the references block (the empty block
\* included) the citation list is empty; analyze_files shows "No references
\* section found.", does not call the export, sets no error status and schedules
\* the completion, which ends the analysis as any other.
C22_NoMarkerNoExport ==
    (HasSplit /\ MarkersAtLineStart(references_block) = {}) =>
        /\ references_editor = Line("NO_REFERENCES", 0, <<>>)
        /\ references_list = <<>>
        /\ calls = <<>>
        /\ log_lines = <<>>
        /\ ~export_log.exists
        /\ \/ pc = "timer" /\ status_label.tag = "CONVERTED"
           \/ pc = "idle" /\ status_label.tag = "ANALYSIS_COMPLETE" /\ generate_button

\* the analysis of a Markdown whose references section holds text but no marker
\* has completed
C22_Witness ==
    /\ pc = "idle"
    /\ references_editor.tag = "NO_REFERENCES"
    /\ references_block # <<>>
    /\ MarkersAtLineStart(references_block) = {}
    /\ status_label.tag = "ANALYSIS_COMPLETE"

(* ------------------------------------------------------------------ *)
(* C23                                                                 *)
(* ------------------------------------------------------------------ *)

\* one of the three inputs is not selected
InputMissing == \E z \in Zones : ~project_data[z]

\* C23: analyze_files entered while one of the three inputs is missing sets the
\* status that asks for all required files and returns: the output directory is
\* not created, no Markdown is produced or read, no references are extracted or
\* shown, the export is not called, no file is written and the completion is not
\* scheduled.
C23_MissingInputReturns ==
    [][(InputMissing /\ runs' = runs + 1) =>
          /\ status_label' = Line("MISSING_FILES", 0, <<>>)
          /\ pc = "idle"
          /\ pc' = "idle"
          /\ UNCHANGED <<output_dir, md_content, references_block, references_editor,
                         export_frame, calls, bib_out, export_log, debug_log,
                         md_error_log, generate_button>>]_vars

\* analyze_files has returned for a missing bibliography file and has left no
\* output directory
C23_Witness ==
    /\ runs = 1
    /\ ~project_data.bibtex_file
    /\ project_data.docx_file
    /\ project_data.template_folder
    /\ status_label.tag = "MISSING_FILES"
    /\ pc = "idle"
    /\ ~output_dir
    /\ ~generate_button

(* ------------------------------------------------------------------ *)
(* C24                                                                 *)
(* ------------------------------------------------------------------ *)

IsSnapshot(line) == line.tag = "DEBUG_AFTER"

\* the snapshots of the dedup-set state held by the written dump, in its order
Snapshots == SelectSeq(debug_log.content, IsSnapshot)

\* C24: the dump written by a call holds, for every citation of the list in
\* ordinal order, one snapshot of the dedup-set state taken after that citation
\* was handled, citations skipped as duplicates included.
C24_SnapshotPerCitation ==
    (pc = "done" /\ debug_log.exists) =>
        /\ Len(Snapshots) = Len(references_list)
        /\ \A k \in 1..Len(Snapshots) : Snapshots[k].num = k

(* ------------------------------------------------------------------ *)
(* C25                                                                 *)
(* ------------------------------------------------------------------ *)

\* the templates that close the handling of a citation: exported, skipped as a
\* duplicate, unmatched
OutcomeLineTags == {"EXPORT", "SKIP_DOI", "SKIP_TITLE", "ERROR_NO_MATCH"}

\* the positions of log_lines that belong to citation k: from its "Processing
\* reference" line up to the next one, or to the end of the per-citation lines
BlockOf(k) ==
    {i \in DOMAIN log_lines :
        /\ \E p \in LogIndex("PROCESSING") : p <= i
        /\ OrdinalAt(i + 1) = k
        /\ log_lines[i].tag \notin {"SUCCESS", "ERROR_NONE_EXPORTED", "ERROR_WRITE"}}

\* the positions of the outcome lines of citation k
OutcomesOf(k) == {i \in DOMAIN log_lines : log_lines[i].tag \in OutcomeLineTags /\ log_lines[i].num = k}

\* C25: between two iterations and at the end of a call that read the
\* bibliography, the audit log holds for every citation handled so far a
\* "Processing reference" line with its ordinal and raw text, then exactly one
\* outcome line for that ordinal (exported, duplicate-skipped or unmatched), which
\* closes the lines of that citation; the citations appear in increasing ordinal
\* order.
C25_OneOutcomePerCitation ==
    (pc \in {"for", "done"} /\ bibtex_file.error = "none") =>
        /\ Len(ProcessingLines) = idx
        /\ \A k \in 1..idx :
              /\ ProcessingLines[k].num = k
              /\ ProcessingLines[k].val = references_list[k]
              /\ Cardinality(OutcomesOf(k)) = 1
              /\ OutcomesOf(k) \subseteq BlockOf(k)
              /\ \A i \in BlockOf(k) : \A o \in OutcomesOf(k) : i <= o

\* a finished call whose three citations ended in the three outcomes: exported,
\* skipped, unmatched
C25_Witness ==
    /\ pc = "done"
    /\ idx = 3
    /\ log_lines[Len(log_lines)].tag = "SUCCESS"
    /\ OutcomesOf(1) \subseteq LogIndex("EXPORT")
    /\ OutcomesOf(2) \subseteq SkipLines
    /\ OutcomesOf(3) \subseteq LogIndex("ERROR_NO_MATCH")

(* ------------------------------------------------------------------ *)
(* C26                                                                 *)
(* ------------------------------------------------------------------ *)

IsNonSpace(c) == c \notin SpaceSet

\* the non-whitespace characters of a text, in order
NonSpace(text) == SelectSeq(text, IsNonSpace)

\* the block from its first recognizable marker on; nothing when it has none
FromFirstMarker(block) ==
    IF MarkersAtLineStart(block) = {} THEN <<>>
    ELSE SubSeq(block, SetMin(MarkersAtLineStart(block)), Len(block))

\* the text of the block in front of its first recognizable marker
BeforeFirstMarker(block) ==
    IF MarkersAtLineStart(block) = {} THEN block
    ELSE SubSeq(block, 1, SetMin(MarkersAtLineStart(block)) - 1)

\* the statement as the specification words it: the citations returned hold every
\* non-whitespace character of the block, the text in front of the first marker
\* included
C26_Original ==
    pc = "split_done" => NonSpace(Concat(references_list)) = NonSpace(references_block)

\* C26: the citations returned by split_references hold, in order and once each,
\* the non-whitespace characters of the block from its first recognized marker
\* on; the text in front of the first recognized marker is in no citation.
C26_PartitionFromFirstMarker ==
    pc = "split_done" =>
        NonSpace(Concat(references_list)) = NonSpace(FromFirstMarker(references_block))

\* a block with text in front of its first marker and text after it: one
\* citation, which holds the marker and the text after it
C26_Witness ==
    /\ pc = "split_done"
    /\ NonSpace(BeforeFirstMarker(references_block)) = <<"a", "b">>
    /\ references_list = << <<"1", ".", " ", "a", "b">> >>

(* ------------------------------------------------------------------ *)
(* C27                                                                 *)
(* ------------------------------------------------------------------ *)

\* C27: split_references drops empty segments: no citation it returns consists
\* of a marker only.
C27_NoMarkerOnlyCitation ==
    pc = "split_done" => \A i \in DOMAIN references_list : ~IsMarker(references_list[i])

(* ------------------------------------------------------------------ *)
(* C28                                                                 *)
(* ------------------------------------------------------------------ *)

\* the number of elements of the two dedup sets
SeenCount == Cardinality(seen_dois) + Cardinality(seen_titles)

\* between two iterations and after the loop there are as many accepted entries
\* as elements in the two sets
EntriesCountSeen ==
    (pc \in {"for", "done"} /\ bibtex_file.error = "none") => Len(entries) = SeenCount

\* a step of the call never takes an element out of a set; a set changes only
\* by the one element of an acceptance, the other set unchanged: the DOI token
\* of the "Matched by DOI" line, the case-folded title of the "Matched by title"
\* line; and an entry is appended only for the element added in its iteration
OneElementPerAcceptance ==
    /\ seen_dois \subseteq seen_dois'
    /\ seen_titles \subseteq seen_titles'
    /\ seen_dois' # seen_dois =>
          /\ log_lines'[Len(log_lines')].tag = "OK_DOI"
          /\ log_lines'[Len(log_lines')].val \notin seen_dois
          /\ seen_dois' = seen_dois \cup {log_lines'[Len(log_lines')].val}
          /\ seen_titles' = seen_titles
          /\ bib_entry'.found /\ pc' = "export"
    /\ seen_titles' # seen_titles =>
          /\ log_lines'[Len(log_lines')].tag = "OK_TITLE"
          /\ Lower(log_lines'[Len(log_lines')].val) \notin seen_titles
          /\ seen_titles' = seen_titles \cup {Lower(log_lines'[Len(log_lines')].val)}
          /\ seen_dois' = seen_dois
          /\ bib_entry'.found /\ pc' = "export"
    /\ (pc # "export" /\ pc' = "export" /\ bib_entry'.found) =>
          Cardinality(seen_dois') + Cardinality(seen_titles') = SeenCount + 1
    /\ entries' # entries =>
          /\ Len(entries') = Len(entries) + 1
          /\ SeenCount = Len(entries')
          /\ seen_dois' = seen_dois /\ seen_titles' = seen_titles

\* C28: at the start and at the end of every iteration of the export loop the
\* number of accepted entries is the size of the exported-DOI set plus the size
\* of the exported-title set; both sets only grow; each acceptance adds exactly
\* one new element to exactly one of them, the DOI token for a DOI acceptance,
\* the case-folded title for a title acceptance.
C28_EntriesMatchDedupSets == [](EntriesCountSeen) /\ [][OneElementPerAcceptance]_vars

\* a finished call that accepted one citation by DOI and one by title, and
\* handled a third that it did not accept
C28_Witness ==
    /\ pc = "done"
    /\ idx = 3
    /\ Cardinality(seen_dois) = 1
    /\ Cardinality(seen_titles) = 1
    /\ Len(entries) = 2

(* ------------------------------------------------------------------ *)
(* C29                                                                 *)
(* ------------------------------------------------------------------ *)

\* the three inputs are all selected: no zone shows an empty path
AllZonesFilled == \A z \in Zones : current_file[z] # <<>>

\* C29: after any sequence of file-selected and file-cleared events on the three
\* input zones, the analyze button is enabled exactly when the document, the
\* template folder and the bibliography file are all non-empty, project_data
\* ["is_ready"] is that same condition, and project_data holds for each input what
\* its zone shows.
C29_ButtonIffAllSelected ==
    /\ analyze_button = AllZonesFilled
    /\ project_data.is_ready = AllZonesFilled
    /\ \A z \in Zones : project_data[z] = IsSelected(current_file[z])

\* the three inputs were selected, the bibliography was then cleared and the
\* document replaced: the button, enabled in between, is disabled
C29_Witness ==
    /\ current_file = [docx_file |-> PathInB, template_folder |-> PathOutA, bibtex_file |-> <<>>]
    /\ status_label = Line("SELECTED", 0, <<"DOCX", <<"b">>>>)
    /\ ~analyze_button

====
